---- MODULE Spec2Model ----
(***************************************************************************)
(* Model of the JS-side IPC runtime of wry-bindgen: the slotted object     *)
(* heap (JSHeap), the re-entrant dispatch loop (handleBinaryResponse) and  *)
(* the outbound call wrappers (RustFunction.call, callExport).             *)
(*                                                                         *)
(* Two specifications share the variables:                                 *)
(*   HeapSpec  the JSHeap class driven by arbitrary sequences of its       *)
(*             public methods;                                             *)
(*   Spec      the runtime driven by a peer that sends Evaluate / Respond  *)
(*             messages over the synchronous transport.                    *)
(***************************************************************************)
EXTENDS Integers, Sequences, FiniteSets, TLC

(***************************************************************************)
(* Program constants (heap.ts:2-7)                                         *)
(***************************************************************************)
JSIDX_OFFSET == 128
JSIDX_UNDEFINED == JSIDX_OFFSET
JSIDX_NULL == JSIDX_OFFSET + 1
JSIDX_TRUE == JSIDX_OFFSET + 2
JSIDX_FALSE == JSIDX_OFFSET + 3
JSIDX_RESERVED == JSIDX_OFFSET + 4

(***************************************************************************)
(* Bounds of the model                                                     *)
(***************************************************************************)
\* HeapSpec: IDs handed out above JSIDX_RESERVED + open borrow frames + open
\* reservation scopes + active borrowed references + free-list entries
MaxOpen == 5

\* JS values: the four specials and the objects handed to the heap: HeapSpec
\* inserts the objects of Objects, borrows those of Borrowed and fills
\* reserved slots with those of Results
Undefined == "undefined"
Objects == {"a"}
Borrowed == {"b"}
Results == {"c"}

(***************************************************************************)
(* JS sparse-array semantics of `slots`: a map from the indices that were  *)
(* assigned and a `length` one above the largest index ever assigned.      *)
(***************************************************************************)
Max(a, b) == IF a >= b THEN a ELSE b

\* this.slots[id] = value
SlotSet(h, id, v) ==
    [h EXCEPT !.slots = [x \in (DOMAIN h.slots) \cup {id} |->
                            IF x = id THEN v ELSE h.slots[x]],
              !.length = Max(h.length, id + 1)]

\* delete this.slots[id]   (length is not changed by delete)
SlotDelete(h, id) ==
    [h EXCEPT !.slots = [x \in (DOMAIN h.slots) \ {id} |-> h.slots[x]]]

\* constructor()
NewHeap ==
    [slots |-> [x \in {JSIDX_UNDEFINED, JSIDX_NULL, JSIDX_TRUE, JSIDX_FALSE} |->
                   CASE x = JSIDX_NULL -> "null"
                     [] x = JSIDX_TRUE -> "true"
                     [] x = JSIDX_FALSE -> "false"
                     [] OTHER -> Undefined],
     length |-> JSIDX_FALSE + 1,
     freeIds |-> <<>>,
     maxId |-> JSIDX_RESERVED,
     borrowStackPointer |-> JSIDX_OFFSET,
     borrowFrameStack |-> <<>>,
     reservationStack |-> <<>>]

(***************************************************************************)
(* JSHeap methods.  Each is a function of the heap before the call and     *)
(* yields the heap after it (h), the returned number (ret), the returned   *)
(* value (val) and whether the call threw (err).                           *)
(***************************************************************************)
Out(h, ret, val, err) == [h |-> h, ret |-> ret, val |-> val, err |-> err]

\* get(id)
get(h, id) == IF id \in DOMAIN h.slots THEN h.slots[id] ELSE Undefined

\* a plausible slip: insert takes a freed ID when there is one
insert_reusesFreed(h, v) ==
    IF Len(h.freeIds) > 0
    THEN Out(SlotSet([h EXCEPT !.freeIds = SubSeq(@, 1, Len(@) - 1)],
                     h.freeIds[Len(h.freeIds)], v),
             h.freeIds[Len(h.freeIds)], Undefined, FALSE)
    ELSE Out(SlotSet([h EXCEPT !.maxId = @ + 1], h.maxId, v),
             h.maxId, Undefined, FALSE)

\* insert(value)
insert(h, v) ==
    LET id == h.maxId
    IN Out(SlotSet([h EXCEPT !.maxId = @ + 1], id, v), id, Undefined, FALSE)

\* a plausible slip: the scope is recorded but the water-mark stays
pushReservationScope_noAdvance(h, count) ==
    Out([h EXCEPT !.reservationStack =
                Append(@, [start |-> h.maxId, count |-> count, nextIndex |-> 0])],
        0, Undefined, FALSE)

\* pushReservationScope(count)
pushReservationScope(h, count) ==
    LET start == h.maxId
    IN Out([h EXCEPT !.reservationStack =
                        Append(@, [start |-> start, count |-> count, nextIndex |-> 0]),
                     !.maxId = @ + count],
           0, Undefined, FALSE)

\* popReservationScope()
popReservationScope(h) ==
    Out([h EXCEPT !.reservationStack =
                IF Len(@) = 0 THEN @ ELSE SubSeq(@, 1, Len(@) - 1)],
        0, Undefined, FALSE)

\* a plausible slip: the slot is computed from the water-mark, as insert does
fillNextReserved_atWaterMark(h, v) ==
    LET n == Len(h.reservationStack)
    IN IF n = 0 \/ h.reservationStack[n].nextIndex >= h.reservationStack[n].count
       THEN Out(h, 0, Undefined, TRUE)
       ELSE Out(SlotSet([h EXCEPT !.reservationStack[n].nextIndex = @ + 1],
                        h.maxId - 1, v),
                h.maxId - 1, Undefined, FALSE)

\* a plausible slip: only the empty stack is checked, not the count
fillNextReserved_noCountCheck(h, v) ==
    LET n == Len(h.reservationStack)
    IN IF n = 0
       THEN Out(h, 0, Undefined, TRUE)
       ELSE LET scope == h.reservationStack[n]
                id == scope.start + scope.nextIndex
            IN Out(SlotSet([h EXCEPT !.reservationStack[n].nextIndex = @ + 1], id, v),
                   id, Undefined, FALSE)

\* a plausible slip: the scope is taken from the bottom of the stack
fillNextReserved_bottomScope(h, v) ==
    LET n == Len(h.reservationStack)
    IN IF n = 0 \/ h.reservationStack[1].nextIndex >= h.reservationStack[1].count
       THEN Out(h, 0, Undefined, TRUE)
       ELSE LET scope == h.reservationStack[1]
                id == scope.start + scope.nextIndex
            IN Out(SlotSet([h EXCEPT !.reservationStack[1].nextIndex = @ + 1], id, v),
                   id, Undefined, FALSE)

\* fillNextReserved(value); ret is the `id` the value is stored at
fillNextReserved(h, v) ==
    LET n == Len(h.reservationStack)
    IN IF n = 0 \/ h.reservationStack[n].nextIndex >= h.reservationStack[n].count
       THEN Out(h, 0, Undefined, TRUE)
       ELSE LET scope == h.reservationStack[n]
                id == scope.start + scope.nextIndex
            IN Out(SlotSet([h EXCEPT !.reservationStack[n].nextIndex = @ + 1], id, v),
                   id, Undefined, FALSE)

\* a plausible slip: the guard on the reserved IDs is missing
remove_noGuard(h, id) ==
    Out([SlotDelete(h, id) EXCEPT !.freeIds = Append(@, id)],
        0, get(h, id), FALSE)

\* a plausible slip: the ID goes to the free list but the slot keeps its value
remove_keepsSlot(h, id) ==
    IF id < JSIDX_RESERVED
    THEN Out(h, 0, get(h, id), FALSE)
    ELSE Out([h EXCEPT !.freeIds = Append(@, id)], 0, get(h, id), FALSE)

\* remove(id)
remove(h, id) ==
    IF id < JSIDX_RESERVED
    THEN Out(h, 0, get(h, id), FALSE)
    ELSE Out([SlotDelete(h, id) EXCEPT !.freeIds = Append(@, id)],
             0, get(h, id), FALSE)

\* a plausible slip: the free list is not consulted
has_belowLength(h, id) == id < h.length

\* has(id)
has(h, id) ==
    /\ \A i \in 1..Len(h.freeIds) : h.freeIds[i] # id
    /\ id < h.length

\* a plausible slip: the freed IDs are not subtracted
heapObjectsAlive_ignoresFreed(h) == h.length - JSIDX_RESERVED

\* heapObjectsAlive()
heapObjectsAlive(h) == h.length - Len(h.freeIds) - JSIDX_RESERVED

\* a plausible slip: the last slot of the borrow stack is never handed out
addBorrowedRef_offByOne(h, obj) ==
    IF h.borrowStackPointer <= 2
    THEN Out(h, 0, Undefined, TRUE)
    ELSE LET p == h.borrowStackPointer - 1
         IN Out(SlotSet([h EXCEPT !.borrowStackPointer = p], p, obj),
                p, Undefined, FALSE)

\* a plausible slip: the overflow check is missing
addBorrowedRef_noCheck(h, obj) ==
    LET p == h.borrowStackPointer - 1
    IN Out(SlotSet([h EXCEPT !.borrowStackPointer = p], p, obj),
           p, Undefined, FALSE)

\* a plausible slip: the reference is stored one slot below the pointer
addBorrowedRef_storesBelow(h, obj) ==
    IF h.borrowStackPointer <= 1
    THEN Out(h, 0, Undefined, TRUE)
    ELSE LET p == h.borrowStackPointer - 1
         IN Out(SlotSet([h EXCEPT !.borrowStackPointer = p], p - 1, obj),
                p, Undefined, FALSE)

\* addBorrowedRef(obj)
addBorrowedRef(h, obj) ==
    IF h.borrowStackPointer <= 1
    THEN Out(h, 0, Undefined, TRUE)
    ELSE LET p == h.borrowStackPointer - 1
         IN Out(SlotSet([h EXCEPT !.borrowStackPointer = p], p, obj),
                p, Undefined, FALSE)

\* pushBorrowFrame()
pushBorrowFrame(h) ==
    Out([h EXCEPT !.borrowFrameStack = Append(@, h.borrowStackPointer)],
        0, Undefined, FALSE)

\* the loop of popBorrowFrame: delete slots[i] for i in [from, to)
ClearRange(h, from, to) ==
    [h EXCEPT !.slots = [x \in (DOMAIN h.slots) \ (from .. (to - 1)) |-> h.slots[x]]]

\* a plausible slip: the pointer is restored but the slots are left in place
popBorrowFrame_noClear(h) ==
    LET n == Len(h.borrowFrameStack)
    IN IF n = 0
       THEN Out(h, 0, Undefined, FALSE)
       ELSE Out([h EXCEPT !.borrowFrameStack = SubSeq(@, 1, n - 1),
                          !.borrowStackPointer = h.borrowFrameStack[n]],
                0, Undefined, FALSE)

\* a plausible slip: the pop clears the whole borrow stack below 128
popBorrowFrame_clearsAll(h) ==
    LET n == Len(h.borrowFrameStack)
    IN IF n = 0
       THEN Out(h, 0, Undefined, FALSE)
       ELSE LET savedPointer == h.borrowFrameStack[n]
            IN Out([ClearRange(h, h.borrowStackPointer, JSIDX_OFFSET)
                       EXCEPT !.borrowFrameStack = SubSeq(@, 1, n - 1),
                              !.borrowStackPointer = savedPointer],
                   0, Undefined, FALSE)

\* popBorrowFrame()
popBorrowFrame(h) ==
    LET n == Len(h.borrowFrameStack)
    IN IF n = 0
       THEN Out(h, 0, Undefined, FALSE)
       ELSE LET savedPointer == h.borrowFrameStack[n]
            IN Out([ClearRange(h, h.borrowStackPointer, savedPointer)
                       EXCEPT !.borrowFrameStack = SubSeq(@, 1, n - 1),
                              !.borrowStackPointer = savedPointer],
                   0, Undefined, FALSE)

\* getBorrowStackPointer()
getBorrowStackPointer(h) == h.borrowStackPointer


(***************************************************************************)
(* Wire codec (DataEncoder / DataDecoder): a message is four streams.  The *)
(* decoder's offsets are modelled by dropping what was read.               *)
(***************************************************************************)
TwoTo8 == 256
TwoTo16 == 65536

\* value >>> 0, computed on 16-bit halves.  TLC's integers end at 2^31 - 1, so
\* a word whose top bit is set is held in its two's-complement reading
\* (0xfffffffe as -2): the bit pattern is the one the code writes.
Wrap32(v) ==
    LET lo == v % TwoTo16
        hi == (v \div TwoTo16) % TwoTo16
    IN IF hi >= TwoTo16 \div 2 THEN (hi - TwoTo16) * TwoTo16 + lo ELSE hi * TwoTo16 + lo
\* Math.floor(value / 0x100000000) and high * 0x100000000
High32(v) == (v \div TwoTo16) \div TwoTo16
Shift32(v) == (v * TwoTo16) * TwoTo16

\* what a typed array yields when read past its end (undefined); no word of
\* the model's messages has this value
Missing == 0 - 99

\* new DataEncoder()
NewEncoder == [u8 |-> <<>>, u16 |-> <<>>, u32 |-> <<>>, str |-> <<>>]

\* pushU8(value)
pushU8(e, v) == [e EXCEPT !.u8 = Append(@, v % TwoTo8)]

\* a plausible slip: the word is put in front of the stream
pushU32_prepends(e, v) == [e EXCEPT !.u32 = <<Wrap32(v)>> \o @]

\* pushU32(value)
pushU32(e, v) == [e EXCEPT !.u32 = Append(@, Wrap32(v))]

\* pushU64(value): low word, then high word
pushU64(e, v) == pushU32(pushU32(e, Wrap32(v)), Wrap32(High32(v)))

\* new TextEncoder().encode(value): the UTF-8 bytes of a JS string given as
\* its UTF-16 code units; a surrogate without its partner becomes U+FFFD
RECURSIVE TextEncoder_encode(_)
TextEncoder_encode(s) ==
    IF Len(s) = 0 THEN <<>>
    ELSE LET c == s[1]
         IN IF c < 128 THEN <<c>> \o TextEncoder_encode(Tail(s))
            ELSE IF c < 2048
            THEN <<192 + (c \div 64), 128 + (c % 64)>> \o TextEncoder_encode(Tail(s))
            ELSE IF c >= 55296 /\ c < 56320 /\ Len(s) >= 2 /\ s[2] >= 56320 /\ s[2] < 57344
            THEN LET cp == 65536 + (c - 55296) * 1024 + (s[2] - 56320)
                 IN <<240 + (cp \div 262144), 128 + ((cp \div 4096) % 64),
                      128 + ((cp \div 64) % 64), 128 + (cp % 64)>>
                       \o TextEncoder_encode(Tail(Tail(s)))
            ELSE IF c >= 55296 /\ c < 57344
            THEN <<239, 191, 189>> \o TextEncoder_encode(Tail(s))
            ELSE <<224 + (c \div 4096), 128 + ((c \div 64) % 64), 128 + (c % 64)>>
                    \o TextEncoder_encode(Tail(s))

\* pushStr(value): the length as a word, the UTF-8 bytes on the string stream
pushStr(e, bytes) == [pushU32(e, Len(bytes)) EXCEPT !.str = @ \o bytes]

\* a plausible slip: pushU16 masks with 0xff
pushU16_masksByte(e, v) == [e EXCEPT !.u16 = Append(@, v % TwoTo8)]

\* pushU16(value)
pushU16(e, v) == [e EXCEPT !.u16 = Append(@, v % TwoTo16)]

\* finalize(): the ArrayBuffer, as its bytes: three header offsets, then the
\* u32, u16, u8 and string sections.  setUint16 and setUint32 are the bytes
\* DataView writes with littleEndian = true, least significant first.
finalize_buffer(e) ==
    LET setUint16(v) == <<v % TwoTo8, (v \div TwoTo8) % TwoTo8>>
        setUint32(v) == setUint16(v % TwoTo16) \o setUint16((v \div TwoTo16) % TwoTo16)
        Written(ws, put(_), w) ==
            [i \in 1..(w * Len(ws)) |-> put(ws[((i - 1) \div w) + 1])[((i - 1) % w) + 1]]
        u16Offset == 12 + Len(e.u32) * 4
        u8Offset == u16Offset + Len(e.u16) * 2
        strOffset == u8Offset + Len(e.u8)
    IN setUint32(u16Offset) \o setUint32(u8Offset) \o setUint32(strOffset)
          \o Written(e.u32, setUint32, 4)
          \o Written(e.u16, setUint16, 2)
          \o e.u8
          \o e.str

\* new TextDecoder("utf-8").decode(bytes): the UTF-16 code units of the
\* string.  A leading byte-order mark is dropped; a byte that starts no
\* complete sequence becomes U+FFFD.
TextDecoder_decode(bytes) ==
    LET RECURSIVE Units(_)
        Units(b) ==
            IF Len(b) = 0 THEN <<>>
            ELSE LET c == b[1]
                     Cont(n) == /\ Len(b) >= n
                                /\ \A i \in 2..n : b[i] >= 128 /\ b[i] < 192
                 IN IF c < 128 THEN <<c>> \o Units(Tail(b))
                    ELSE IF c >= 192 /\ c < 224 /\ Cont(2)
                    THEN <<(c - 192) * 64 + (b[2] - 128)>> \o Units(SubSeq(b, 3, Len(b)))
                    ELSE IF c >= 224 /\ c < 240 /\ Cont(3)
                    THEN <<(c - 224) * 4096 + (b[2] - 128) * 64 + (b[3] - 128)>>
                            \o Units(SubSeq(b, 4, Len(b)))
                    ELSE IF c >= 240 /\ c < 248 /\ Cont(4)
                    THEN LET cp == (c - 240) * 262144 + (b[2] - 128) * 4096
                                      + (b[3] - 128) * 64 + (b[4] - 128) - 65536
                         IN <<55296 + (cp \div 1024), 56320 + (cp % 1024)>>
                               \o Units(SubSeq(b, 5, Len(b)))
                    ELSE <<65533>> \o Units(Tail(b))
    IN IF Len(bytes) >= 3 /\ SubSeq(bytes, 1, 3) = <<239, 187, 191>>
       THEN Units(SubSeq(bytes, 4, Len(bytes)))
       ELSE Units(bytes)

\* new DataDecoder(data): the header read with getUint32(offset, true), the
\* typed arrays over the sections it names (their elements are little-endian
\* too), and the string section decoded to a JS string
DataDecoder_constructor(data) ==
    LET getUint16(offset) == data[offset + 1] + TwoTo8 * data[offset + 2]
        getUint32(offset) ==
            LET lo == getUint16(offset)
                hi == getUint16(offset + 2)
            IN IF hi >= TwoTo16 \div 2 THEN (hi - TwoTo16) * TwoTo16 + lo
               ELSE hi * TwoTo16 + lo
        u16ByteOffset == getUint32(0)
        u8ByteOffset == getUint32(4)
        strByteOffset == getUint32(8)
        u32ByteLength == u16ByteOffset - 12
        u16ByteLength == u8ByteOffset - u16ByteOffset
        u8ByteLength == strByteOffset - u8ByteOffset
    IN [u32 |-> [i \in 1..(u32ByteLength \div 4) |-> getUint32(12 + 4 * (i - 1))],
        u16 |-> [i \in 1..(u16ByteLength \div 2) |->
                    getUint16(u16ByteOffset + 2 * (i - 1))],
        u8 |-> [i \in 1..u8ByteLength |-> data[u8ByteOffset + i]],
        str |-> TextDecoder_decode(SubSeq(data, strByteOffset + 1, Len(data)))]

\* finalize() followed by new DataDecoder(buffer): the four streams as pushed
NullResponse == [null |-> TRUE, u8 |-> <<>>, u16 |-> <<>>, u32 |-> <<>>, str |-> <<>>]
finalize(e) == [null |-> FALSE, u8 |-> e.u8, u16 |-> e.u16, u32 |-> e.u32, str |-> e.str]
DataDecoder(buf) == [u8 |-> buf.u8, u16 |-> buf.u16, u32 |-> buf.u32, str |-> buf.str]

\* takeU8() / takeU32(): the value read (V) and the decoder after (D)
takeU8V(d) == IF Len(d.u8) > 0 THEN Head(d.u8) ELSE Missing
takeU8D(d) == IF Len(d.u8) > 0 THEN [d EXCEPT !.u8 = Tail(@)] ELSE d
takeU32V(d) == IF Len(d.u32) > 0 THEN Head(d.u32) ELSE Missing
takeU32D(d) == IF Len(d.u32) > 0 THEN [d EXCEPT !.u32 = Tail(@)] ELSE d

\* takeU16()
takeU16V(d) == IF Len(d.u16) > 0 THEN Head(d.u16) ELSE Missing
takeU16D(d) == IF Len(d.u16) > 0 THEN [d EXCEPT !.u16 = Tail(@)] ELSE d

\* takeStr(): len = takeU32(), strBuf.substring(strOffset, strOffset + len),
\* strOffset += len; substring stops at the end of strBuf
takeStrV(d) ==
    LET len == takeU32V(d)
    IN IF len <= 0 THEN <<>>
       ELSE SubSeq(d.str, 1, IF len < Len(d.str) THEN len ELSE Len(d.str))
takeStrD(d) ==
    LET len == takeU32V(d)
    IN IF len <= 0 THEN takeU32D(d)
       ELSE [takeU32D(d) EXCEPT !.str = SubSeq(@, len + 1, Len(@))]

\* takeU64(): low + high * 2^32
takeU64V(d) == takeU32V(d) + Shift32(takeU32V(takeU32D(d)))
takeU64D(d) == takeU32D(takeU32D(d))

(* A JS number that holds an integer beyond 32 bits is modelled by its sign *)
(* and the set of the positions of the one bits of its magnitude.          *)
Big(neg, bits) == [neg |-> neg /\ bits # {}, bits |-> bits]
MaxBit(S) == CHOOSE i \in S : \A j \in S : j <= i

\* S + 2^p, and S - 2^p for S >= 2^p
RECURSIVE AddBit(_, _)
AddBit(S, p) == IF p \in S THEN AddBit(S \ {p}, p + 1) ELSE S \cup {p}
RECURSIVE SubBit(_, _)
SubBit(S, p) == IF p \in S THEN S \ {p} ELSE SubBit(S \cup {p}, p + 1)

\* A + B, and A - B for A >= B
RECURSIVE AddBits(_, _)
AddBits(A, B) ==
    IF B = {} THEN A
    ELSE LET p == MaxBit(B) IN AddBits(AddBit(A, p), B \ {p})
RECURSIVE SubBits(_, _)
SubBits(A, B) ==
    IF B = {} THEN A
    ELSE LET p == MaxBit(B) IN SubBits(SubBit(A, p), B \ {p})

\* A < B
LessBits(A, B) == A # B /\ MaxBit((A \ B) \cup (B \ A)) \in B

\* the double nearest to the integer with bits S (53 significant bits, ties
\* to even)
Round53(S) ==
    IF S = {} \/ MaxBit(S) <= 52 THEN S
    ELSE LET cut == MaxBit(S) - 52
             kept == {i \in S : i >= cut}
             up == /\ (cut - 1) \in S
                   /\ (cut \in S \/ \E i \in S : i < cut - 1)
         IN IF up THEN AddBit(kept, cut) ELSE kept

\* x + y in double arithmetic, for integers x and y that are doubles
Plus(x, y) ==
    IF x.neg = y.neg THEN Big(x.neg, Round53(AddBits(x.bits, y.bits)))
    ELSE IF LessBits(x.bits, y.bits) THEN Big(y.neg, Round53(SubBits(y.bits, x.bits)))
    ELSE Big(x.neg, Round53(SubBits(x.bits, y.bits)))

\* x * 2^k and Math.floor(x / 2^k): both exact
Times2To(x, k) == Big(x.neg, {i + k : i \in x.bits})
FloorDiv2To(x, k) ==
    LET hi == {i - k : i \in {j \in x.bits : j >= k}}
    IN IF x.neg /\ (\E i \in x.bits : i < k) THEN Big(TRUE, AddBit(hi, 0))
       ELSE Big(x.neg, hi)

\* x >>> 0: the bits of x modulo 2^32
ToUint32(x) ==
    LET low == {i \in x.bits : i < 32}
    IN IF x.neg /\ low # {} THEN SubBits({32}, low) ELSE low

\* x | 0: the low 32 bits of x read as a signed number
ToInt32(x) ==
    LET u == ToUint32(x)
    IN IF 31 \in u THEN Big(TRUE, SubBits({32}, u)) ELSE Big(FALSE, u)

\* a 32-bit word of the model (see Wrap32) from its bits, and back
RECURSIVE Weigh(_)
Weigh(S) == IF S = {} THEN 0 ELSE LET p == MaxBit(S) IN 2^p + Weigh(S \ {p})
WordOf(bits) ==
    LET lo == Weigh({i \in bits : i < 16})
        hi == Weigh({i - 16 : i \in {j \in bits : j >= 16 /\ j < 32}})
    IN IF hi >= TwoTo16 \div 2 THEN (hi - TwoTo16) * TwoTo16 + lo ELSE hi * TwoTo16 + lo
BitsOf(w) ==
    LET lo == w % TwoTo16
        hi == (w \div TwoTo16) % TwoTo16
    IN {i \in 0..15 : (lo \div (2^i)) % 2 = 1}
          \cup {i + 16 : i \in {j \in 0..15 : (hi \div (2^j)) % 2 = 1}}

\* pushU64(value) for a value beyond the model's integers: value >>> 0, then
\* Math.floor(value / 0x100000000) >>> 0
pushU64N(e, x) ==
    pushU32(pushU32(e, WordOf(ToUint32(x))), WordOf(ToUint32(FloorDiv2To(x, 32))))

\* pushU128(value): low = value >>> 0, high = Math.floor(value / 2^64) >>> 0,
\* pushU64(low), pushU64(high)
pushU128(e, x) ==
    LET low == Big(FALSE, ToUint32(x))
        high == Big(FALSE, ToUint32(FloorDiv2To(x, 64)))
    IN pushU64N(pushU64N(e, low), high)

\* takeU64() as a number beyond the model's integers: low + high * 2^32
takeU64N(d) ==
    Plus(Big(FALSE, BitsOf(takeU32V(d))),
         Times2To(Big(FALSE, BitsOf(takeU32V(takeU32D(d)))), 32))

\* takeU128(): low = takeU64(), high = takeU64(), low + high * 2^64
takeU128V(d) == Plus(takeU64N(d), Times2To(takeU64N(takeU64D(d)), 64))
takeU128D(d) == takeU64D(takeU64D(d))

\* takeI128(): low = takeU64(), high = takeU64(), low + (high | 0) * 2^64
takeI128V(d) == Plus(takeU64N(d), Times2To(ToInt32(takeU64N(takeU64D(d))), 64))

\* hasMoreU32()
hasMoreU32(d) == Len(d.u32) > 0

\* getRemainingBytes() and skipBytes(count)
getRemainingBytes(d) == d.u8
skipBytes(d, count) == [d EXCEPT !.u8 = SubSeq(@, count + 1, Len(@))]

\* a plausible slip: only the streams every message uses are looked at
isEmpty_u8u32Only(d) == Len(d.u8) = 0 /\ Len(d.u32) = 0

\* isEmpty()
isEmpty(d) == Len(d.u8) = 0 /\ Len(d.u16) = 0 /\ Len(d.u32) = 0 /\ Len(d.str) = 0

(***************************************************************************)
(* Type descriptors (TypeTag, TypeClass).  The model carries the leaf      *)
(* descriptors Null, Bool, U32, HeapRef and BorrowedRef; a descriptor is   *)
(* its tag.  JS values are records: a number (num) or an object (obj).     *)
(***************************************************************************)
TagNull == 0
TagBool == 1
TagU32 == 4
TagHeapRef == 17
TagBorrowedRef == 22
LeafTags == {TagNull, TagBool, TagU32, TagHeapRef, TagBorrowedRef}

Num(n) == [num |-> n, obj |-> ""]
Obj(o) == [num |-> 0, obj |-> o]
JsNull == Obj("null")
JsUndefined == Obj(Undefined)

\* parseTypeDef(bytes, offset) for the leaf tags, the only tags of TypeTag in
\* the model's messages; a byte that is no tag takes the default case, which
\* throws
parseTypeDef(bytes, offset) ==
    LET tag == IF offset + 1 <= Len(bytes) THEN bytes[offset + 1] ELSE Missing
    IN [type |-> tag, offset |-> offset + 1, err |-> tag \notin LeafTags]

\* TypeClass.decode(decoder): the value (V) and the decoder after (D)
decodeV(type, d, h) ==
    CASE type = TagNull -> JsNull
      [] type = TagBool -> IF takeU8V(d) # 0 THEN Obj("true") ELSE Obj("false")
      [] type = TagU32 -> Num(takeU32V(d))
      [] type = TagHeapRef -> Obj(get(h, takeU64V(d)))
      [] type = TagBorrowedRef -> Obj(get(h, takeU64V(d)))
      [] OTHER -> JsUndefined
decodeD(type, d) ==
    CASE type = TagNull -> d
      [] type = TagBool -> takeU8D(d)
      [] type = TagU32 -> takeU32D(d)
      [] type = TagHeapRef -> takeU64D(d)
      [] type = TagBorrowedRef -> takeU64D(d)
      [] OTHER -> d

\* a plausible slip: HeapRefType.encode writes the ID it got to the encoder
encode_pushesId(type, e, h, v) ==
    CASE type = TagBool ->
            [e |-> pushU8(e, IF v.obj = "true" THEN 1 ELSE 0), h |-> h, id |-> 0, err |-> FALSE]
      [] type = TagU32 ->
            [e |-> pushU32(e, v.num), h |-> h, id |-> 0, err |-> FALSE]
      [] type = TagHeapRef ->
            LET r == insert(h, v.obj)
            IN [e |-> pushU64(e, r.ret), h |-> r.h, id |-> r.ret, err |-> FALSE]
      [] type = TagBorrowedRef ->
            LET r == addBorrowedRef(h, v.obj)
            IN [e |-> e, h |-> r.h, id |-> r.ret, err |-> r.err]
      [] OTHER ->
            [e |-> e, h |-> h, id |-> 0, err |-> FALSE]

\* TypeClass.encode(encoder, value): the encoder after (e), the heap after
\* (h), the ID the heap handed out (id, 0 if none) and whether it threw
encode(type, e, h, v) ==
    CASE type = TagBool ->
            [e |-> pushU8(e, IF v.obj = "true" THEN 1 ELSE 0), h |-> h, id |-> 0, err |-> FALSE]
      [] type = TagU32 ->
            [e |-> pushU32(e, v.num), h |-> h, id |-> 0, err |-> FALSE]
      [] type = TagHeapRef ->
            LET r == insert(h, v.obj) IN [e |-> e, h |-> r.h, id |-> r.ret, err |-> FALSE]
      [] type = TagBorrowedRef ->
            LET r == addBorrowedRef(h, v.obj)
            IN [e |-> e, h |-> r.h, id |-> r.ret, err |-> r.err]
      [] OTHER ->
            [e |-> e, h |-> h, id |-> 0, err |-> FALSE]

(***************************************************************************)
(* State                                                                   *)
(***************************************************************************)
VARIABLES
    heap,      \* window.jsHeap: the JSHeap instance
    lastOp,    \* the most recent JSHeap method call, its arguments and result
    ghost,     \* history of the heap calls (never read by the program)
    pc,        \* "idle": no JS on the stack; "run": JS is executing;
               \* "blocked": JS waits in sync_request_binary; "error": an
               \* exception left the runtime uncaught
    stack,     \* the activations on the JS call stack, innermost last
    typeCache, \* the type cache: type ID -> CachedTypeInfo
    wire,      \* history: the messages that crossed the transport, in order
    peer,      \* the peer's mirror of the water-mark and the borrow stack
    exited,    \* history: the outbound call that ended in the last step
    thrown,    \* the message of the uncaught exception, "" if none
    parsed,    \* history: the calls of parseTypeInfo that returned, in order
    codec,     \* a DataEncoder, the buffer it was finalized to, the
               \* DataDecoder made from that buffer, and the history of the
               \* values pushed and taken
    wrappers   \* the RustFunction instances constructed so far, each with its
               \* fnId and whether JS still holds it ("held"), the collector
               \* took it ("collected") or its clean-up callback ran
               \* ("dropped")

heapVars == <<heap, lastOp, ghost>>
dispVars == <<pc, stack, typeCache, wire, peer, exited, thrown, parsed, codec, wrappers>>
runVars == <<heap, lastOp, ghost, pc, stack, typeCache, wire, peer, exited, thrown, parsed,
             wrappers>>
vars == <<heap, lastOp, ghost, pc, stack, typeCache, wire, peer, exited, thrown, parsed,
          codec, wrappers>>

\* the record kept of a call; W, n, k, expectPtr and cleared come from ghost
NoOp ==
    [op |-> "none", arg |-> 0, val |-> Undefined, ret |-> 0, err |-> FALSE,
     preMax |-> JSIDX_RESERVED, W |-> 0, n |-> 0, k |-> 0,
     matched |-> FALSE, expectPtr |-> 0, cleared |-> {}, nested |-> FALSE]

\* ghost.frames   one entry per open borrow frame: the pointer when it was
\*                pushed, the IDs handed out by addBorrowedRef since and the
\*                whether a frame was pushed inside it
\* ghost.scopes   one entry per open reservation scope: the water-mark W when
\*                it was pushed, its size n and the number k of fills so far
\* ghost.reservedEver  every ID that some pushed scope covered
\* ghost.inserted      the IDs returned by insert, in call order
\* ghost.removedEver   the IDs returned by insert that were later removed
\* ghost.removedNotLive  the IDs from 132 up that remove was called with
\*                     while they were not live: never inserted yet, or
\*                     removed already
NoGhost ==
    [frames |-> <<>>, scopes |-> <<>>, reservedEver |-> {},
     inserted |-> <<>>, removedEver |-> {}, removedNotLive |-> {}]

Range(s) == {s[i] : i \in DOMAIN s}
Top(s) == s[Len(s)]
Pop(s) == SubSeq(s, 1, Len(s) - 1)

\* what HeapSpec bounds with MaxOpen
Open(h) ==
    (h.maxId - JSIDX_RESERVED) + Len(h.borrowFrameStack) + Len(h.reservationStack)
        + (JSIDX_OFFSET - h.borrowStackPointer) + Len(h.freeIds)

\* no outbound call ended in the last step
NoExit ==
    [valid |-> FALSE, path |-> "", via |-> "", id |-> 0, returnType |-> TagNull,
     entryDepth |-> 0, entryPtr |-> 0, placed |-> {}, value |-> JsUndefined]

\* a value as the history of the codec keeps it: a number (num), a string as
\* its UTF-16 code units (str), or a wide number (big)
Item(kind, num, str, big) == [kind |-> kind, num |-> num, str |-> str, big |-> big]

\* a fresh encoder, nothing finalized, nothing pushed or taken
NewCodec ==
    [phase |-> "push", enc |-> NewEncoder, buf |-> <<>>, dec |-> NewEncoder,
     log |-> <<>>, got |-> <<>>]

\* the peer starts with the same water-mark and an empty borrow stack
NewPeer == [maxId |-> JSIDX_RESERVED, ptr |-> JSIDX_OFFSET, frames |-> <<>>]

\* main.ts: a fresh heap; function_registry.ts: an empty type cache
Init ==
    /\ heap = NewHeap
    /\ lastOp = NoOp
    /\ ghost = NoGhost
    /\ pc = "idle"
    /\ stack = <<>>
    /\ typeCache = [x \in {} |-> 0]
    /\ wire = <<>>
    /\ peer = NewPeer
    /\ exited = NoExit
    /\ thrown = ""
    /\ parsed = <<>>
    /\ codec = NewCodec
    /\ wrappers = <<>>

HeapInit == Init

(***************************************************************************)
(* HeapSpec: one action per public method of JSHeap, called with any       *)
(* argument.                                                               *)
(***************************************************************************)
Called(name, r) ==
    [NoOp EXCEPT !.op = name, !.ret = r.ret, !.val = r.val, !.err = r.err,
                 !.preMax = heap.maxId]

HInsert ==
    /\ UNCHANGED dispVars
    /\ \E v \in Objects :
        /\ Open(heap) < MaxOpen
        /\ LET r == insert(heap, v)
           IN /\ heap' = r.h
              /\ lastOp' = [Called("insert", r) EXCEPT !.val = v]
              /\ ghost' = [ghost EXCEPT !.inserted = Append(@, r.ret)]

\* the IDs remove is called with: 0, a borrow-stack ID, the special IDs, every
\* ID below the water-mark (live, reserved or already freed) and the water-mark
RemoveIds(h) ==
    {0, JSIDX_OFFSET - 1} \cup (JSIDX_OFFSET .. h.maxId)

HRemove ==
    /\ UNCHANGED dispVars
    /\ \E id \in RemoveIds(heap) :
        /\ Open(heap) < MaxOpen
        /\ LET r == remove(heap, id)
           IN /\ heap' = r.h
              /\ lastOp' = [Called("remove", r) EXCEPT !.arg = id]
              /\ ghost' = [ghost EXCEPT
                              !.removedEver =
                                  IF id \in Range(ghost.inserted) THEN @ \cup {id} ELSE @,
                              !.removedNotLive =
                                  IF /\ id >= JSIDX_RESERVED
                                     /\ \/ id \notin Range(ghost.inserted)
                                        \/ id \in ghost.removedEver
                                  THEN @ \cup {id} ELSE @]

HAddBorrowedRef ==
    /\ UNCHANGED dispVars
    /\ \E v \in Borrowed :
        /\ Open(heap) < MaxOpen
        /\ LET r == addBorrowedRef(heap, v)
           IN /\ heap' = r.h
              /\ lastOp' = [Called("addBorrowedRef", r) EXCEPT !.val = v]
              /\ ghost' = [ghost EXCEPT !.frames =
                              IF r.err THEN @
                              ELSE [i \in DOMAIN @ |->
                                      [@[i] EXCEPT !.added = @ \cup {r.ret}]]]

HPushBorrowFrame ==
    /\ UNCHANGED dispVars
    /\ /\ Open(heap) < MaxOpen
    /\ LET r == pushBorrowFrame(heap)
       IN /\ heap' = r.h
          /\ lastOp' = Called("pushBorrowFrame", r)
          /\ ghost' = [ghost EXCEPT !.frames =
                          Append([i \in DOMAIN @ |-> [@[i] EXCEPT !.nested = TRUE]],
                                 [ptr |-> heap.borrowStackPointer, added |-> {},
                                  nested |-> FALSE])]

HPopBorrowFrame ==
    /\ UNCHANGED dispVars
    /\ LET r == popBorrowFrame(heap)
               open == Len(ghost.frames) > 0
           IN /\ heap' = r.h
              /\ lastOp' = [Called("popBorrowFrame", r) EXCEPT
                               !.matched = open,
                               !.expectPtr = IF open THEN Top(ghost.frames).ptr ELSE 0,
                               !.cleared = IF open THEN Top(ghost.frames).added ELSE {},
                               !.nested = IF open THEN Top(ghost.frames).nested ELSE FALSE]
              /\ ghost' = [ghost EXCEPT !.frames = IF open THEN Pop(@) ELSE @]

HPushReservationScope ==
    /\ UNCHANGED dispVars
    /\ \E count \in {0, 1, 2} :
        /\ Open(heap) + count < MaxOpen
        /\ LET r == pushReservationScope(heap, count)
           IN /\ heap' = r.h
              /\ lastOp' = [Called("pushReservationScope", r) EXCEPT !.arg = count]
              /\ ghost' = [ghost EXCEPT
                              !.scopes = Append(@, [W |-> heap.maxId, n |-> count, k |-> 0]),
                              !.reservedEver = @ \cup (heap.maxId .. (heap.maxId + count - 1))]

HPopReservationScope ==
    /\ UNCHANGED dispVars
    /\ LET r == popReservationScope(heap)
           IN /\ heap' = r.h
              /\ lastOp' = Called("popReservationScope", r)
              /\ ghost' = [ghost EXCEPT !.scopes = IF Len(@) > 0 THEN Pop(@) ELSE @]

HFillNextReserved ==
    /\ UNCHANGED dispVars
    /\ \E v \in Results :
        LET r == fillNextReserved(heap, v)
            open == Len(ghost.scopes) > 0
        IN /\ heap' = r.h
           /\ lastOp' = [Called("fillNextReserved", r) EXCEPT
                            !.val = v,
                            !.matched = open,
                            !.W = IF open THEN Top(ghost.scopes).W ELSE 0,
                            !.n = IF open THEN Top(ghost.scopes).n ELSE 0,
                            !.k = IF open THEN Top(ghost.scopes).k ELSE 0]
           /\ ghost' = [ghost EXCEPT !.scopes =
                           IF open /\ ~r.err
                           THEN [@ EXCEPT ![Len(@)].k = @ + 1]
                           ELSE @]

HeapNext ==
    \/ HInsert
    \/ HRemove
    \/ HAddBorrowedRef
    \/ HPushBorrowFrame
    \/ HPopBorrowFrame
    \/ HPushReservationScope
    \/ HPopReservationScope
    \/ HFillNextReserved

HeapSpec == HeapInit /\ [][HeapNext]_vars

(***************************************************************************)
(* BorrowSpec: the borrow stack alone, filled to its end.  Only the three  *)
(* borrow methods are called, with any number of references and at most    *)
(* MaxFrames open frames.                                                  *)
(***************************************************************************)
MaxFrames == 1

BAddBorrowedRef ==
    /\ UNCHANGED dispVars
    /\ \E v \in Borrowed :
        LET r == addBorrowedRef(heap, v)
        IN /\ heap' = r.h
           /\ lastOp' = [Called("addBorrowedRef", r) EXCEPT !.val = v]
           /\ UNCHANGED ghost

BPushBorrowFrame ==
    /\ UNCHANGED dispVars
    /\ Len(heap.borrowFrameStack) < MaxFrames
    /\ LET r == pushBorrowFrame(heap)
       IN /\ heap' = r.h
          /\ lastOp' = Called("pushBorrowFrame", r)
          /\ UNCHANGED ghost

BPopBorrowFrame ==
    /\ UNCHANGED dispVars
    /\ LET r == popBorrowFrame(heap)
       IN /\ heap' = r.h
          /\ lastOp' = Called("popBorrowFrame", r)
          /\ UNCHANGED ghost

BorrowNext ==
    \/ BAddBorrowedRef
    \/ BPushBorrowFrame
    \/ BPopBorrowFrame

BorrowSpec == HeapInit /\ [][BorrowNext]_vars

(***************************************************************************)
(* CodecSpec: values are pushed on a DataEncoder in any order, the encoder *)
(* is finalized, a DataDecoder is made from the buffer, and the values are *)
(* taken, the streams in any order.                                        *)
(***************************************************************************)
\* how many values are pushed
MaxPush == 3

\* the values pushed: 0xffffffff is held as -1 (see Wrap32)
U8Values == {7, 255}
U16Values == {258, 65535}
U32Values == {16909060, 0 - 1}

NoBig == [neg |-> FALSE, bits |-> {}]

\* the values of the given kinds, in push order
Pushed(kinds) == SelectSeq(codec.log, LAMBDA it : it.kind \in kinds)
Taken(kinds) == SelectSeq(codec.got, LAMBDA it : it.kind \in kinds)

\* the encoder may take one more value
CanPush == codec.phase = "push" /\ Len(codec.log) < MaxPush

\* the codec after a push that leaves the encoder e, and after a take that
\* leaves the decoder d
Push(e, it) == [codec EXCEPT !.enc = e, !.log = Append(@, it)]
Take(d, it) == [codec EXCEPT !.dec = d, !.got = Append(@, it)]

CPushU8 ==
    /\ CanPush
    /\ \E v \in U8Values :
          codec' = Push(pushU8(codec.enc, v), Item("u8", v, <<>>, NoBig))
    /\ UNCHANGED runVars

CPushU16 ==
    /\ CanPush
    /\ \E v \in U16Values :
          codec' = Push(pushU16(codec.enc, v), Item("u16", v, <<>>, NoBig))
    /\ UNCHANGED runVars

CPushU32 ==
    /\ CanPush
    /\ \E v \in U32Values :
          codec' = Push(pushU32(codec.enc, v), Item("u32", v, <<>>, NoBig))
    /\ UNCHANGED runVars

\* finalize(), then new DataDecoder(buffer) on the other side
CFinalize ==
    /\ codec.phase = "push"
    /\ LET data == finalize_buffer(codec.enc)
       IN codec' = [codec EXCEPT !.phase = "take", !.buf = data,
                                 !.dec = DataDecoder_constructor(data)]
    /\ UNCHANGED runVars

\* the reader takes what the writer pushed on that stream, no more
CTakeU8 ==
    /\ codec.phase = "take"
    /\ Len(Taken({"u8"})) < Len(Pushed({"u8"}))
    /\ codec' = Take(takeU8D(codec.dec), Item("u8", takeU8V(codec.dec), <<>>, NoBig))
    /\ UNCHANGED runVars

CTakeU16 ==
    /\ codec.phase = "take"
    /\ Len(Taken({"u16"})) < Len(Pushed({"u16"}))
    /\ codec' = Take(takeU16D(codec.dec), Item("u16", takeU16V(codec.dec), <<>>, NoBig))
    /\ UNCHANGED runVars

CTakeU32 ==
    /\ codec.phase = "take"
    /\ Len(Taken({"u32"})) < Len(Pushed({"u32"}))
    /\ codec' = Take(takeU32D(codec.dec), Item("u32", takeU32V(codec.dec), <<>>, NoBig))
    /\ UNCHANGED runVars

CodecNext ==
    \/ CPushU8
    \/ CPushU16
    \/ CPushU32
    \/ CFinalize
    \/ CTakeU8
    \/ CTakeU16
    \/ CTakeU32

CodecSpec == Init /\ [][CodecNext]_vars

(***************************************************************************)
(* StrSpec: the same with strings                                          *)
(***************************************************************************)
\* "a", "ab", e acute (2 bytes), the euro sign (3 bytes), a face (4 bytes,
\* two code units), and the euro sign followed by "a"
StrValues ==
    {<<97>>, <<97, 98>>, <<233>>, <<8364>>, <<55357, 56832>>, <<8364, 97>>}

CPushStr ==
    /\ CanPush
    /\ \E s \in StrValues :
          codec' = Push(pushStr(codec.enc, TextEncoder_encode(s)), Item("str", 0, s, NoBig))
    /\ UNCHANGED runVars

CTakeStr ==
    /\ codec.phase = "take"
    /\ Len(Taken({"str"})) < Len(Pushed({"str"}))
    /\ codec' = Take(takeStrD(codec.dec), Item("str", 0, takeStrV(codec.dec), NoBig))
    /\ UNCHANGED runVars

StrNext ==
    \/ CPushStr
    \/ CFinalize
    \/ CTakeStr

StrSpec == Init /\ [][StrNext]_vars

(***************************************************************************)
(* WideSpec: the same with 128-bit integers                                *)
(***************************************************************************)
\* 1, 2^31 + 5, 2^32, 2^64 + 2^70, 2^127, -1, -2^32, -2^127: each one a
\* double
BigValues ==
    {Big(FALSE, {0}), Big(FALSE, {0, 2, 31}), Big(FALSE, {32}), Big(FALSE, {64, 70}),
     Big(FALSE, {127}), Big(TRUE, {0}), Big(TRUE, {32}), Big(TRUE, {127})}

CPushU128 ==
    /\ CanPush
    /\ \E x \in BigValues :
          codec' = Push(pushU128(codec.enc, x), Item("u128", 0, <<>>, x))
    /\ UNCHANGED runVars

CTakeU128 ==
    /\ codec.phase = "take"
    /\ Len(Taken({"u128", "i128"})) < Len(Pushed({"u128"}))
    /\ codec' = Take(takeU128D(codec.dec), Item("u128", 0, <<>>, takeU128V(codec.dec)))
    /\ UNCHANGED runVars

CTakeI128 ==
    /\ codec.phase = "take"
    /\ Len(Taken({"u128", "i128"})) < Len(Pushed({"u128"}))
    /\ codec' = Take(takeU128D(codec.dec), Item("i128", 0, <<>>, takeI128V(codec.dec)))
    /\ UNCHANGED runVars

WideNext ==
    \/ CPushU128
    \/ CFinalize
    \/ CTakeU128
    \/ CTakeI128

WideSpec == Init /\ [][WideNext]_vars


(***************************************************************************)
(* EnumSpec: a StringEnumType is made with a table of variants, strings    *)
(* are encoded with it, the encoder is finalized and the reader decodes    *)
(* with the same table.                                                    *)
(***************************************************************************)
\* this.lookupArray.indexOf(value): the first position, from 0, or -1
indexOf(lookupArray, value) ==
    LET at == {i \in DOMAIN lookupArray : lookupArray[i] = value}
    IN IF at = {} THEN 0 - 1 ELSE (CHOOSE i \in at : \A j \in at : i <= j) - 1

\* a plausible slip: the index is pushed as indexOf returns it
StringEnumType_encode_rawIndex(lookupArray, e, value) ==
    pushU32(e, indexOf(lookupArray, value))

\* StringEnumType.encode(encoder, value)
StringEnumType_encode(lookupArray, e, value) ==
    LET index == indexOf(lookupArray, value)
        encoded == IF index >= 0 THEN index ELSE Len(lookupArray)
    IN pushU32(e, encoded)

\* StringEnumType.decode(decoder): the element at the index read, which is
\* undefined (defined = FALSE) when the array has no such element
StringEnumType_decode(lookupArray, d) ==
    LET index == takeU32V(d)
    IN [dec |-> takeU32D(d),
        index |-> index,
        defined |-> (index + 1) \in DOMAIN lookupArray,
        str |-> IF (index + 1) \in DOMAIN lookupArray THEN lookupArray[index + 1]
                ELSE <<>>]

\* the tables: none, "a", "a" "b", "b" "a" "c", and one with the empty string
EnumTables ==
    {<<>>, <<<<97>>>>, <<<<97>>, <<98>>>>, <<<<98>>, <<97>>, <<99>>>>, <<<<>>, <<97>>>>}

\* the strings encoded: "a", "b", "c", "d" and the empty string
EnumValues == {<<97>>, <<98>>, <<99>>, <<100>>, <<>>}

\* the table the StringEnumType was made with
EnumTable == codec.log[1].str

\* new StringEnumType(lookupArray)
EConstruct ==
    /\ codec.phase = "push"
    /\ Len(codec.log) = 0
    /\ \E t \in EnumTables : codec' = Push(codec.enc, Item("table", Len(t), t, NoBig))
    /\ UNCHANGED runVars

EEncode ==
    /\ CanPush
    /\ Len(codec.log) > 0
    /\ \E v \in EnumValues :
          codec' = Push(StringEnumType_encode(EnumTable, codec.enc, v),
                        Item("enum", 0, v, NoBig))
    /\ UNCHANGED runVars

\* what the history keeps of a decode: the index read in num, or -1 with it
\* when the value is undefined
EDecode ==
    /\ codec.phase = "take"
    /\ Len(Taken({"enum", "undefined"})) < Len(Pushed({"enum"}))
    /\ LET r == StringEnumType_decode(EnumTable, codec.dec)
       IN codec' = Take(r.dec, Item(IF r.defined THEN "enum" ELSE "undefined",
                                    r.index, r.str, NoBig))
    /\ UNCHANGED runVars

EnumNext ==
    \/ EConstruct
    \/ EEncode
    \/ CFinalize
    \/ EDecode

EnumSpec == Init /\ [][EnumNext]_vars


(***************************************************************************)
(* The dispatch loop and the outbound calls.                               *)
(*                                                                         *)
(* The JS call stack holds three kinds of activation:                      *)
(*   entry    evaluate_from_rust_binary, waiting for handleBinaryResponse  *)
(*   call     RustFunction.call or callExport, waiting for the transport   *)
(*            or for the handler that serves a nested Evaluate             *)
(*   handler  handleBinaryResponse inside the operation loop of an         *)
(*            Evaluate; once it has sent the Respond it only hands the     *)
(*            result of the next response to its caller, so it is popped   *)
(*            when the Respond is sent                                     *)
(* The steps of one activation are composed on a record of the runtime's   *)
(* state.                                                                  *)
(***************************************************************************)
MessageType_Evaluate == 0
MessageType_Respond == 1
TYPE_CACHED == 255
TYPE_FULL == 254
\* 0xfffffffe and 0xffffffff as 32-bit words (see Wrap32)
CALL_EXPORT_FN_ID == 0 - 2
DROP_NATIVE_REF_FN_ID == 0 - 1

Cur ==
    [pc |-> pc, stack |-> stack, heap |-> heap, typeCache |-> typeCache,
     wire |-> wire, peer |-> peer, exited |-> NoExit, thrown |-> thrown,
     parsed |-> parsed, wrappers |-> wrappers]

Becomes(m) ==
    /\ pc' = m.pc
    /\ stack' = m.stack
    /\ heap' = m.heap
    /\ typeCache' = m.typeCache
    /\ wire' = m.wire
    /\ peer' = m.peer
    /\ exited' = m.exited
    /\ thrown' = m.thrown
    /\ parsed' = m.parsed
    /\ wrappers' = m.wrappers
    /\ UNCHANGED <<lastOp, ghost, codec>>

\* the record of an outbound call that ends
ExitOf(f, path, v) ==
    [valid |-> TRUE, path |-> path, via |-> f.via, id |-> f.id,
     returnType |-> f.returnType,
     entryDepth |-> f.entryDepth, entryPtr |-> f.entryPtr, placed |-> f.placed,
     value |-> v]

\* throw new Error(what): nothing catches it, every activation is abandoned
\* as it stands; the innermost outbound call on the stack is the first to end
Throw(m, what, path) ==
    LET calls == {i \in DOMAIN m.stack : m.stack[i].kind = "call"}
    IN [m EXCEPT !.pc = "error",
                 !.thrown = what,
                 !.exited = IF calls = {} THEN NoExit
                            ELSE ExitOf(m.stack[CHOOSE i \in calls :
                                                   \A j \in calls : j <= i], path, JsUndefined)]

\* a plausible slip: the caller does not get the decoded value
ReturnToCaller_dropsValue(m, v, path) ==
    LET f == Top(m.stack)
        stk == Pop(m.stack)
    IN IF Len(stk) = 0
       THEN [m EXCEPT !.stack = stk, !.pc = "idle", !.exited = ExitOf(f, path, v)]
       ELSE [m EXCEPT !.stack = [stk EXCEPT ![Len(stk)].callRet = JsUndefined,
                                            ![Len(stk)].called = TRUE],
                      !.pc = "run",
                      !.exited = ExitOf(f, path, v)]

\* `return decoded` of an outbound call: the caller is the JS function of the
\* operation being handled, or JS code that runs outside any handler
ReturnToCaller(m, v, path) ==
    LET f == Top(m.stack)
        stk == Pop(m.stack)
    IN IF Len(stk) = 0
       THEN [m EXCEPT !.stack = stk, !.pc = "idle", !.exited = ExitOf(f, path, v)]
       ELSE [m EXCEPT !.stack = [stk EXCEPT ![Len(stk)].callRet = v,
                                            ![Len(stk)].called = TRUE],
                      !.pc = "run",
                      !.exited = ExitOf(f, path, v)]

\* takeI32(): unsigned | 0, the two's-complement reading of the word
takeI32V(d) == Wrap32(takeU32V(d))

\* a plausible slip: the return value is decoded before the frame is popped
RustFunction_return_decodesFirst(m, res) ==
    LET f == Top(m.stack)
        m1 == [m EXCEPT !.heap = popBorrowFrame(m.heap).h]
    IN IF res.null
       THEN IF f.returnType = TagNull
            THEN ReturnToCaller(m1, JsNull, "null")
            ELSE Throw(m, "TypeError: result is null", "null")
       ELSE LET decoded == decodeV(f.returnType, res.dec, m.heap)
                rest == decodeD(f.returnType, res.dec)
            IN IF ~isEmpty(rest)
               THEN Throw(m1, "Unprocessed data remaining after RustFunction call",
                          "leftover")
               ELSE ReturnToCaller(m1, decoded, "return")

\* RustFunction.call after handleBinaryResponse returned `result`
RustFunction_return(m, res) ==
    LET f == Top(m.stack)
        m1 == [m EXCEPT !.heap = popBorrowFrame(m.heap).h]
    IN IF res.null
       THEN IF f.returnType = TagNull
            THEN ReturnToCaller(m1, JsNull, "null")
            ELSE Throw(m1, "TypeError: result is null", "null")
       ELSE LET decoded == decodeV(f.returnType, res.dec, m1.heap)
                rest == decodeD(f.returnType, res.dec)
            IN IF ~isEmpty(rest)
               THEN Throw(m1, "Unprocessed data remaining after RustFunction call",
                          "leftover")
               ELSE ReturnToCaller(m1, decoded, "return")

\* callExport after handleBinaryResponse returned `decoder`
callExport_return(m, res) ==
    LET m1 == [m EXCEPT !.heap = popBorrowFrame(m.heap).h]
    IN IF ~res.null /\ hasMoreU32(res.dec)
       THEN ReturnToCaller(m1, Num(takeI32V(res.dec)), "return")
       ELSE ReturnToCaller(m1, JsUndefined, IF res.null THEN "null" ELSE "return")

\* evaluate_from_rust_binary after handleBinaryResponse returned `remaining`
evaluate_from_rust_binary_return(m, res) ==
    IF ~res.null
    THEN Throw(m, "Unprocessed data remaining after Evaluate handling", "entry")
    ELSE [m EXCEPT !.stack = Pop(m.stack), !.pc = "idle"]

\* handleBinaryResponse returns `res` to the activation that called it
ReturnResult(m, res) ==
    LET f == Top(m.stack)
    IN CASE f.kind = "entry" -> evaluate_from_rust_binary_return(m, res)
         [] f.kind = "finalizer" -> [m EXCEPT !.stack = Pop(m.stack), !.pc = "idle"]
         [] f.kind = "call" /\ f.via = "RustFunction" -> RustFunction_return(m, res)
         [] OTHER -> callExport_return(m, res)

NullResult == [null |-> TRUE, dec |-> DataDecoder(NullResponse)]

\* a plausible slip: an Evaluate is handed to the caller like a Respond
handleBinaryResponse_noDispatch(m, response, meta) ==
    IF response.null
    THEN ReturnResult(m, NullResult)
    ELSE ReturnResult(m, [null |-> FALSE, dec |-> takeU8D(DataDecoder(response))])

\* handleBinaryResponse(response) up to the operation loop.  meta is what the
\* history keeps of an Evaluate: its number and the operations the peer put
\* in it.
handleBinaryResponse(m, response, meta) ==
    IF response.null
    THEN ReturnResult(m, NullResult)
    ELSE LET decoder == takeU8D(DataDecoder(response))
             msgType == takeU8V(DataDecoder(response))
         IN IF msgType = MessageType_Respond
            THEN ReturnResult(m, [null |-> FALSE, dec |-> decoder])
            ELSE IF msgType = MessageType_Evaluate
            THEN LET reservedCount == takeU32V(decoder)
                     h1 == pushReservationScope(m.heap, reservedCount).h
                     h2 == pushBorrowFrame(h1).h
                 IN [m EXCEPT
                        !.heap = h2,
                        !.pc = "run",
                        !.stack = Append(@,
                            [kind |-> "handler", id |-> meta.id, state |-> "loop",
                             dec |-> takeU32D(decoder),
                             enc |-> pushU8(NewEncoder, MessageType_Respond),
                             reservedCount |-> reservedCount,
                             W |-> m.heap.maxId, ops |-> meta.ops,
                             expects |-> meta.expects,
                             invoked |-> <<>>, rets |-> <<>>, types |-> <<>>,
                             stored |-> <<>>, marks |-> <<>>,
                             entry |-> [scopes |-> Len(m.heap.reservationStack),
                                        frames |-> Len(m.heap.borrowFrameStack),
                                        ptr |-> m.heap.borrowStackPointer],
                             cur |-> [fnId |-> 0, returnType |-> TagNull, params |-> <<>>],
                             callRet |-> JsUndefined, called |-> FALSE])]
            ELSE IF ~isEmpty(decoder)
            THEN Throw(m, "Unprocessed data remaining after Evaluate handling", "nested")
            ELSE ReturnResult(m, NullResult)

\* the loops of parseTypeInfo: n descriptors parsed from bytes at offset
RECURSIVE ParseTypes(_, _, _)
ParseTypes(bytes, offset, n) ==
    IF n = 0
    THEN [types |-> <<>>, offset |-> offset, err |-> FALSE]
    ELSE LET t == parseTypeDef(bytes, offset)
             rest == ParseTypes(bytes, t.offset, n - 1)
         IN IF t.err
            THEN [types |-> <<>>, offset |-> t.offset, err |-> TRUE]
            ELSE [types |-> <<t.type>> \o rest.types, offset |-> rest.offset,
                  err |-> rest.err]

\* a plausible slip: a type ID that is cached already keeps its entry
CacheSet_keepsFirst(cache, typeId, info) ==
    IF typeId \in DOMAIN cache
    THEN cache
    ELSE [x \in (DOMAIN cache) \cup {typeId} |-> IF x = typeId THEN info ELSE cache[x]]

\* typeCache.set(typeId, cached)
CacheSet(cache, typeId, info) ==
    [x \in (DOMAIN cache) \cup {typeId} |-> IF x = typeId THEN info ELSE cache[x]]

\* a plausible slip: every marker that is not TYPE_FULL is read as TYPE_CACHED
parseTypeInfo_anyMarkerCached(decoder, cache) ==
    LET typeMarker == takeU8V(decoder)
        d1 == takeU8D(decoder)
        typeId == takeU32V(d1)
        d2 == takeU32D(d1)
        none == [paramTypes |-> <<>>, returnType |-> TagNull]
    IN IF typeMarker # TYPE_FULL
       THEN IF typeId \notin DOMAIN cache
            THEN [dec |-> d2, cache |-> cache, info |-> none,
                  err |-> "Unknown cached type ID"]
            ELSE [dec |-> d2, cache |-> cache, info |-> cache[typeId], err |-> ""]
       ELSE LET paramCount == takeU8V(d2)
                d3 == takeU8D(d2)
                typeBytes == getRemainingBytes(d3)
                ps == ParseTypes(typeBytes, 0, paramCount)
                rt == parseTypeDef(typeBytes, ps.offset)
                cached == [paramTypes |-> ps.types, returnType |-> rt.type]
            IN IF ps.err \/ rt.err
               THEN [dec |-> d3, cache |-> cache, info |-> none,
                     err |-> "Unknown TypeTag"]
               ELSE [dec |-> skipBytes(d3, rt.offset),
                     cache |-> CacheSet(cache, typeId, cached),
                     info |-> cached, err |-> ""]

\* a plausible slip: the type ID is installed before its descriptors are
\* parsed, with what was parsed when the parser throws
parseTypeInfo_installsFirst(decoder, cache) ==
    LET typeMarker == takeU8V(decoder)
        d1 == takeU8D(decoder)
        typeId == takeU32V(d1)
        d2 == takeU32D(d1)
        none == [paramTypes |-> <<>>, returnType |-> TagNull]
    IN IF typeMarker = TYPE_CACHED
       THEN IF typeId \notin DOMAIN cache
            THEN [dec |-> d2, cache |-> cache, info |-> none,
                  err |-> "Unknown cached type ID"]
            ELSE [dec |-> d2, cache |-> cache, info |-> cache[typeId], err |-> ""]
       ELSE IF typeMarker = TYPE_FULL
       THEN LET paramCount == takeU8V(d2)
                d3 == takeU8D(d2)
                typeBytes == getRemainingBytes(d3)
                ps == ParseTypes(typeBytes, 0, paramCount)
                rt == parseTypeDef(typeBytes, ps.offset)
                cached == [paramTypes |-> ps.types, returnType |-> rt.type]
            IN IF ps.err \/ rt.err
               THEN [dec |-> d3, cache |-> CacheSet(cache, typeId, none), info |-> none,
                     err |-> "Unknown TypeTag"]
               ELSE [dec |-> skipBytes(d3, rt.offset),
                     cache |-> CacheSet(cache, typeId, cached),
                     info |-> cached, err |-> ""]
       ELSE [dec |-> d1, cache |-> cache, info |-> none, err |-> "Unknown type marker"]

\* parseTypeInfo(decoder): the decoder after (dec), the cache after (cache),
\* the CachedTypeInfo (info) and the message of the error thrown ("" if none)
parseTypeInfo(decoder, cache) ==
    LET typeMarker == takeU8V(decoder)
        d1 == takeU8D(decoder)
        typeId == takeU32V(d1)
        d2 == takeU32D(d1)
        none == [paramTypes |-> <<>>, returnType |-> TagNull]
    IN IF typeMarker = TYPE_CACHED
       THEN IF typeId \notin DOMAIN cache
            THEN [dec |-> d2, cache |-> cache, info |-> none,
                  err |-> "Unknown cached type ID"]
            ELSE [dec |-> d2, cache |-> cache, info |-> cache[typeId], err |-> ""]
       ELSE IF typeMarker = TYPE_FULL
       THEN LET paramCount == takeU8V(d2)
                d3 == takeU8D(d2)
                typeBytes == getRemainingBytes(d3)
                ps == ParseTypes(typeBytes, 0, paramCount)
                rt == parseTypeDef(typeBytes, ps.offset)
                cached == [paramTypes |-> ps.types, returnType |-> rt.type]
            IN IF ps.err \/ rt.err
               THEN [dec |-> d3, cache |-> cache, info |-> none,
                     err |-> "Unknown TypeTag"]
               ELSE [dec |-> skipBytes(d3, rt.offset),
                     cache |-> CacheSet(cache, typeId, cached),
                     info |-> cached, err |-> ""]
       ELSE [dec |-> d1, cache |-> cache, info |-> none, err |-> "Unknown type marker"]

\* typeInfo.paramTypes.map((paramType) => paramType.decode(decoder))
RECURSIVE DecodeParams(_, _, _)
DecodeParams(types, d, h) ==
    IF Len(types) = 0
    THEN [vals |-> <<>>, dec |-> d]
    ELSE LET rest == DecodeParams(Tail(types), decodeD(Head(types), d), h)
         IN [vals |-> <<decodeV(Head(types), d, h)>> \o rest.vals, dec |-> rest.dec]

(***************************************************************************)
(* Outbound calls                                                          *)
(***************************************************************************)
\* a plausible slip: the loop runs from the last parameter to the first
RECURSIVE EncodeArgs_lastFirst(_, _, _, _)
EncodeArgs_lastFirst(types, args, e, h) ==
    IF Len(types) = 0
    THEN [e |-> e, h |-> h, placed |-> {}, err |-> FALSE]
    ELSE LET n == Len(types)
             r == encode(types[n], e, h, args[n])
         IN IF r.err
            THEN [e |-> r.e, h |-> r.h, placed |-> {}, err |-> TRUE]
            ELSE LET rest == EncodeArgs_lastFirst(SubSeq(types, 1, n - 1),
                                                  SubSeq(args, 1, n - 1), r.e, r.h)
                 IN [e |-> rest.e, h |-> rest.h,
                     placed |-> rest.placed \cup
                                (IF types[n] = TagBorrowedRef THEN {r.id} ELSE {}),
                     err |-> rest.err]

\* the loop of RustFunction.call over paramTypes: the encoder and the heap
\* after, the borrow IDs handed out (placed) and whether an encode threw
RECURSIVE EncodeArgs(_, _, _, _)
EncodeArgs(types, args, e, h) ==
    IF Len(types) = 0
    THEN [e |-> e, h |-> h, placed |-> {}, err |-> FALSE]
    ELSE LET r == encode(Head(types), e, h, Head(args))
         IN IF r.err
            THEN [e |-> r.e, h |-> r.h, placed |-> {}, err |-> TRUE]
            ELSE LET rest == EncodeArgs(Tail(types), Tail(args), r.e, r.h)
                 IN [e |-> rest.e, h |-> rest.h,
                     placed |-> rest.placed \cup
                                (IF Head(types) = TagBorrowedRef THEN {r.id} ELSE {}),
                     err |-> rest.err]

\* the loop of callExport over args: numbers are pushed as words, anything
\* else throws
RECURSIVE PushNumbers(_, _)
PushNumbers(e, args) ==
    IF Len(args) = 0
    THEN [e |-> e, err |-> FALSE]
    ELSE IF Head(args).obj # ""
         THEN [e |-> e, err |-> TRUE]
         ELSE PushNumbers(pushU32(e, Head(args).num), Tail(args))

\* a message as the history keeps it
Ev(dir, type, id, buf, note) ==
    [dir |-> dir, type |-> type, id |-> id, buf |-> buf, note |-> note]

\* the Evaluate whose operation is running when an outbound call starts
Parent(stk) == IF Len(stk) = 0 THEN 0 ELSE Top(stk).id

\* the position, in its Evaluate, of the operation that is running
ParentOp(stk) == IF Len(stk) = 0 THEN 0 ELSE Len(Top(stk).invoked)

\* the peer takes an outbound call: one borrow frame, one borrow ID per
\* BorrowedRef argument, one heap ID per HeapRef argument
PeerReceivesCall(p, types) ==
    [p EXCEPT !.frames = Append(@, p.ptr),
              !.ptr = @ - Cardinality({i \in DOMAIN types : types[i] = TagBorrowedRef}),
              !.maxId = @ + Cardinality({i \in DOMAIN types : types[i] = TagHeapRef})]

\* the peer's reply ends the call: its borrow frame goes
PeerEndsCall(p) == [p EXCEPT !.ptr = Top(p.frames), !.frames = Pop(p.frames)]

\* the peer sends an Evaluate with reservedCount rc
PeerEvaluates(p, rc) == [p EXCEPT !.maxId = @ + rc]

\* the peer takes a Respond holding n HeapRef values whose IDs were not
\* reserved
PeerReceivesRespond(p, n) == [p EXCEPT !.maxId = @ + n]

\* sync_request_binary(endpoint, data): the message leaves and JS blocks
sync_request_binary(m, ev) == [m EXCEPT !.wire = Append(@, ev), !.pc = "blocked"]

\* RustFunction.call(...args) up to the transport send
RustFunction_call(m, sig, args) ==
    LET id == Len(m.wire) + 1
        h1 == pushBorrowFrame(m.heap).h
        e0 == pushU32(pushU32(pushU8(NewEncoder, MessageType_Evaluate), 0), sig.fnId)
        a == EncodeArgs(sig.paramTypes, args, e0, h1)
        frame == [kind |-> "call", via |-> "RustFunction", id |-> id,
                  returnType |-> sig.returnType,
                  entryDepth |-> Len(m.heap.borrowFrameStack),
                  entryPtr |-> m.heap.borrowStackPointer,
                  placed |-> a.placed,
                  held |-> [x \in a.placed |-> a.h.slots[x]]]
        m1 == [m EXCEPT !.heap = a.h, !.stack = Append(@, frame)]
    IN IF a.err
       THEN Throw(m1, "Borrow stack overflow", "encode")
       ELSE sync_request_binary(
                [m1 EXCEPT !.peer = PeerReceivesCall(@, sig.paramTypes)],
                Ev("out", "Evaluate", id, finalize(a.e),
                   [parent |-> Parent(m.stack), op |-> ParentOp(m.stack)]))

\* a plausible slip: callExport sends without a borrow frame of its own
callExport_noFrame(m, exportName, args) ==
    LET id == Len(m.wire) + 1
        e0 == pushStr(pushU32(pushU8(NewEncoder, MessageType_Evaluate),
                              CALL_EXPORT_FN_ID), exportName)
        a == PushNumbers(e0, args)
        frame == [kind |-> "call", via |-> "callExport", id |-> id,
                  returnType |-> TagNull,
                  entryDepth |-> Len(m.heap.borrowFrameStack),
                  entryPtr |-> m.heap.borrowStackPointer,
                  placed |-> {},
                  held |-> <<>>]
        m1 == [m EXCEPT !.stack = Append(@, frame)]
    IN IF a.err
       THEN Throw(m1, "Unsupported argument type", "encode")
       ELSE sync_request_binary(
                [m1 EXCEPT !.peer = PeerReceivesCall(@, <<>>)],
                Ev("out", "Evaluate", id, finalize(a.e),
                   [parent |-> Parent(m.stack), op |-> ParentOp(m.stack)]))

\* callExport(exportName, ...args) up to the transport send
callExport(m, exportName, args) ==
    LET id == Len(m.wire) + 1
        h1 == pushBorrowFrame(m.heap).h
        e0 == pushStr(pushU32(pushU8(NewEncoder, MessageType_Evaluate),
                              CALL_EXPORT_FN_ID), exportName)
        a == PushNumbers(e0, args)
        frame == [kind |-> "call", via |-> "callExport", id |-> id,
                  returnType |-> TagNull,
                  entryDepth |-> Len(m.heap.borrowFrameStack),
                  entryPtr |-> m.heap.borrowStackPointer,
                  placed |-> {},
                  held |-> <<>>]
        m1 == [m EXCEPT !.heap = h1, !.stack = Append(@, frame)]
    IN IF a.err
       THEN Throw(m1, "Unsupported argument type", "encode")
       ELSE sync_request_binary(
                [m1 EXCEPT !.peer = PeerReceivesCall(@, <<>>)],
                Ev("out", "Evaluate", id, finalize(a.e),
                   [parent |-> Parent(m.stack), op |-> ParentOp(m.stack)]))

\* a plausible slip: the callback writes the function ID before the marker
nativeRefRegistry_callback_idFirst(m, w) ==
    LET id == Len(m.wire) + 1
        fnId == m.wrappers[w].fnId
        encoder == pushU32(pushU32(pushU8(NewEncoder, MessageType_Evaluate), fnId),
                           DROP_NATIVE_REF_FN_ID)
        m1 == [m EXCEPT !.stack = Append(@, [kind |-> "finalizer", id |-> id]),
                        !.wrappers[w].state = "dropped"]
    IN sync_request_binary(m1, Ev("out", "Evaluate", id, finalize(encoder), [drop |-> w]))

\* the clean-up callback of nativeRefRegistry, called with the fnId held for
\* wrapper w, up to the transport send
nativeRefRegistry_callback(m, w) ==
    LET id == Len(m.wire) + 1
        fnId == m.wrappers[w].fnId
        encoder == pushU32(pushU32(pushU8(NewEncoder, MessageType_Evaluate),
                                   DROP_NATIVE_REF_FN_ID), fnId)
        m1 == [m EXCEPT !.stack = Append(@, [kind |-> "finalizer", id |-> id]),
                        !.wrappers[w].state = "dropped"]
    IN sync_request_binary(m1, Ev("out", "Evaluate", id, finalize(encoder), [drop |-> w]))

\* a plausible slip: the HeapRef result is always encoded, batch or not
storeResult_alwaysEncode(returnType, reservedCount, e, h, result) ==
    encode(returnType, e, h, result)

\* part_001 lines 184-189: fill the next reserved slot or encode the result
storeResult(returnType, reservedCount, e, h, result) ==
    IF returnType = TagHeapRef /\ reservedCount > 0
    THEN LET r == fillNextReserved(h, result.obj)
         IN [e |-> e, h |-> r.h, id |-> r.ret, err |-> r.err]
    ELSE encode(returnType, e, h, result)

(***************************************************************************)
(* The environment of the runtime: the injected function registry, the     *)
(* RustFunction wrappers JS code holds, and the messages of the peer.      *)
(***************************************************************************)
\* how many Evaluate messages a run holds, the peer's and those of JS's
\* outbound calls together, a message of a type that is neither Evaluate nor
\* Respond counting as one
MaxMsgs == 3

\* the IDs the injected registry has a function for
Registry == {0, 1}

\* an operation as the peer writes it: the words on the 32-bit stream and the
\* bytes on the 8-bit stream (type slot: full definition or cached ID)
OpWords(op) == <<op.fnId, op.typeId>> \o op.args
OpBytes(op) ==
    IF op.marker = TYPE_FULL
    THEN <<TYPE_FULL, Len(op.params)>> \o op.params \o <<op.ret>>
    ELSE <<op.marker>>

RECURSIVE FlatWords(_)
FlatWords(ops) == IF Len(ops) = 0 THEN <<>> ELSE OpWords(Head(ops)) \o FlatWords(Tail(ops))
RECURSIVE FlatBytes(_)
FlatBytes(ops) == IF Len(ops) = 0 THEN <<>> ELSE OpBytes(Head(ops)) \o FlatBytes(Tail(ops))

\* Evaluate: type byte, reservedCount, then the operations
EvaluateMsg(rc, ops) ==
    [null |-> FALSE, u8 |-> <<MessageType_Evaluate>> \o FlatBytes(ops), u16 |-> <<>>,
     u32 |-> <<rc>> \o FlatWords(ops), str |-> <<>>]

\* a payload: words on the 32-bit stream and, possibly, data on the others
Words(w) == [words |-> w, u8 |-> <<>>, u16 |-> <<>>, str |-> <<>>]

\* Respond: type byte, then the payload
RespondMsg(p) ==
    [null |-> FALSE, u8 |-> <<MessageType_Respond>> \o p.u8, u16 |-> p.u16,
     u32 |-> p.words, str |-> p.str]

\* a message whose type byte is neither Evaluate nor Respond
MessageType_Other == 2
OtherMsg(p) ==
    [null |-> FALSE, u8 |-> <<MessageType_Other>> \o p.u8, u16 |-> p.u16,
     u32 |-> p.words, str |-> p.str]

\* registry[0]: (U32) -> U32, type 1;  registry[1]: () -> HeapRef, type 2;
\* registry[0] again with type 1 defined anew as (U32) -> Null; no registry[9]
Marker(full) == IF full THEN TYPE_FULL ELSE TYPE_CACHED
OpInc(full, arg) ==
    [fnId |-> 0, typeId |-> 1, full |-> full, marker |-> Marker(full), params |-> <<TagU32>>, ret |-> TagU32,
     args |-> <<arg>>]
OpNew(full) ==
    [fnId |-> 1, typeId |-> 2, full |-> full, marker |-> Marker(full), params |-> <<>>, ret |-> TagHeapRef,
     args |-> <<>>]
OpVoid(full, arg) ==
    [fnId |-> 0, typeId |-> 1, full |-> full, marker |-> Marker(full), params |-> <<TagU32>>, ret |-> TagNull,
     args |-> <<arg>>]
OpBad ==
    [fnId |-> 9, typeId |-> 1, full |-> TRUE, marker |-> TYPE_FULL,
     params |-> <<TagU32>>, ret |-> TagU32, args |-> <<5>>]
\* registry[1] with type 3, () -> BorrowedRef
OpRef ==
    [fnId |-> 1, typeId |-> 3, full |-> TRUE, marker |-> TYPE_FULL,
     params |-> <<>>, ret |-> TagBorrowedRef, args |-> <<>>]
\* registry[0] with a type slot that starts with a byte that is no marker
OpOdd ==
    [fnId |-> 0, typeId |-> 1, full |-> FALSE, marker |-> 7,
     params |-> <<TagU32>>, ret |-> TagU32, args |-> <<6>>]

\* the Evaluate messages the peer chooses from
Catalogue ==
    { [rc |-> 0, ops |-> <<OpInc(TRUE, 5), OpInc(FALSE, 6)>>],
      [rc |-> 3, ops |-> <<OpNew(TRUE), OpNew(FALSE), OpNew(FALSE)>>],
      [rc |-> 0, ops |-> <<OpNew(TRUE)>>],
      [rc |-> 1, ops |-> <<OpNew(TRUE), OpNew(FALSE)>>],
      [rc |-> 0, ops |-> <<OpVoid(TRUE, 7), OpVoid(FALSE, 8)>>],
      [rc |-> 0, ops |-> <<OpInc(FALSE, 6)>>],
      [rc |-> 0, ops |-> <<OpBad>>],
      [rc |-> 0, ops |-> <<OpInc(TRUE, 5), OpOdd>>],
      [rc |-> 0, ops |-> <<OpRef>>] }

\* the HeapRef results the peer expects to be inserted, not reserved
PeerExpects(msg) ==
    IF msg.rc = 0
    THEN Cardinality({i \in DOMAIN msg.ops : msg.ops[i].ret = TagHeapRef})
    ELSE 0

\* the wrappers JS code holds (made by CallbackType.decode) and the arguments
\* it calls them with
CallSigs ==
    { [f |-> [fnId |-> 7, paramTypes |-> <<TagU32>>, returnType |-> TagU32],
       args |-> <<Num(5)>>],
      [f |-> [fnId |-> 8, paramTypes |-> <<TagBorrowedRef, TagHeapRef>>,
              returnType |-> TagNull],
       args |-> <<Obj("b"), Obj("h")>>] }

\* "get" and the argument lists callExport is called with
ExportName == <<103, 101, 116>>
ExportArgs == {<<Num(5)>>, <<Obj("s")>>}

\* the payloads of the peer's Respond to an outbound call: the value asked
\* for, or that value with something more on one of the four streams
RespondPayloads(f) ==
    IF f.via = "callExport" THEN {Words(<<>>), Words(<<10>>)}
    ELSE IF f.returnType = TagU32
    THEN {Words(<<10>>), Words(<<10, 99>>),
          [Words(<<10>>) EXCEPT !.u8 = <<9>>],
          [Words(<<10>>) EXCEPT !.u16 = <<9>>],
          [Words(<<10>>) EXCEPT !.str = <<9>>]}
    ELSE {Words(<<>>), Words(<<99>>)}

\* the payloads of a message the peer sends out of turn: nothing, or a word
StrayPayloads == {Words(<<>>), Words(<<99>>)}

\* what registry[fnId] returns
FnResult(f) ==
    CASE f.cur.returnType = TagU32 ->
            IF f.called /\ f.callRet.obj = "" THEN Num(f.callRet.num + 1)
            ELSE IF Len(f.cur.params) > 0 THEN Num(f.cur.params[1].num + 1)
            ELSE Num(0)
      [] f.cur.returnType = TagHeapRef ->
            Obj("o" \o ToString(f.id) \o "_" \o ToString(Len(f.rets) + 1))
      [] f.cur.returnType = TagBool -> Obj("true")
      [] f.cur.returnType = TagBorrowedRef -> Obj("r")
      [] OTHER -> JsNull

Evaluates == Cardinality({i \in DOMAIN wire : wire[i].type = "Evaluate"})

\* the messages MaxMsgs bounds: the Evaluates and the messages of another type
Counted == Evaluates + Cardinality({i \in DOMAIN wire : wire[i].type = "Other"})

InHandler(state) ==
    /\ pc = "run"
    /\ Len(stack) > 0
    /\ Top(stack).kind = "handler"
    /\ Top(stack).state = state

\* JS code that may call a wrapper: a registry function, or code that runs
\* outside any handler
CanCall == pc = "idle" \/ InHandler("infn")

NoMeta == [id |-> 0, ops |-> <<>>, expects |-> 0]

(***************************************************************************)
(* Spec: the actions of the runtime and of the peer                        *)
(***************************************************************************)
\* the peer calls window.evaluate_from_rust_binary with an Evaluate
PeerCallsEntry ==
    /\ pc = "idle"
    /\ Counted < MaxMsgs
    /\ \E msg \in Catalogue :
        LET id == Len(wire) + 1
            buf == EvaluateMsg(msg.rc, msg.ops)
            m0 == [Cur EXCEPT !.stack = Append(@, [kind |-> "entry", id |-> 0]),
                              !.wire = Append(@, Ev("in", "Evaluate", id, buf,
                                                    [rc |-> msg.rc, ops |-> msg.ops])),
                              !.peer = PeerEvaluates(@, msg.rc)]
        IN Becomes(handleBinaryResponse(m0, buf,
                       [id |-> id, ops |-> msg.ops, expects |-> PeerExpects(msg)]))

\* the response to a pending sync_request_binary is an Evaluate
PeerSendsEvaluate ==
    /\ pc = "blocked"
    /\ Counted < MaxMsgs
    /\ \E msg \in Catalogue :
        LET id == Len(wire) + 1
            buf == EvaluateMsg(msg.rc, msg.ops)
            m0 == [Cur EXCEPT !.wire = Append(@, Ev("in", "Evaluate", id, buf,
                                                    [rc |-> msg.rc, ops |-> msg.ops])),
                              !.peer = PeerEvaluates(@, msg.rc)]
        IN Becomes(handleBinaryResponse(m0, buf,
                       [id |-> id, ops |-> msg.ops, expects |-> PeerExpects(msg)]))

\* the response to the request of an outbound call is the peer's Respond
PeerSendsRespond ==
    /\ pc = "blocked"
    /\ Top(stack).kind = "call"
    /\ \E p \in RespondPayloads(Top(stack)) :
        LET buf == RespondMsg(p)
            m0 == [Cur EXCEPT !.wire = Append(@, Ev("in", "Respond", Top(stack).id, buf, p)),
                              !.peer = PeerEndsCall(@)]
        IN Becomes(handleBinaryResponse(m0, buf, NoMeta))

\* the peer answers the Respond of JS with a Respond of its own: the chain
\* that evaluate_from_rust_binary started ends with a Respond
PeerSendsRespondUnasked ==
    /\ pc = "blocked"
    /\ Counted < MaxMsgs
    /\ Top(stack).kind = "entry"
    /\ \E p \in StrayPayloads :
        LET buf == RespondMsg(p)
            m0 == [Cur EXCEPT !.wire = Append(@, Ev("in", "Unasked", Top(stack).id, buf, p))]
        IN Becomes(handleBinaryResponse(m0, buf, NoMeta))

\* the response to a pending sync_request_binary has a type byte that is
\* neither Evaluate nor Respond
PeerSendsOther ==
    /\ pc = "blocked"
    /\ Counted < MaxMsgs
    /\ \E p \in StrayPayloads :
        LET buf == OtherMsg(p)
            m0 == [Cur EXCEPT !.wire = Append(@, Ev("in", "Other", Top(stack).id, buf, p)),
                              !.peer = IF Top(stack).kind = "call"
                                       THEN PeerEndsCall(@) ELSE @]
        IN Becomes(handleBinaryResponse(m0, buf, NoMeta))

\* the transport fails or delivers no body: sync_request_binary returns null
PeerSendsNothing ==
    /\ pc = "blocked"
    /\ LET m0 == [Cur EXCEPT !.wire = Append(@, Ev("in", "Null", Top(stack).id,
                                                   NullResponse, Words(<<>>))),
                             !.peer = IF Top(stack).kind = "call"
                                      THEN PeerEndsCall(@) ELSE @]
       IN Becomes(handleBinaryResponse(m0, NullResponse, NoMeta))

\* one turn of the loop of handleBinaryResponse up to the call of jsFunction
HandlerOp ==
    /\ InHandler("loop")
    /\ hasMoreU32(Top(stack).dec)
    /\ LET f == Top(stack)
           fnId == takeU32V(f.dec)
           ti == parseTypeInfo(takeU32D(f.dec), typeCache)
           p == DecodeParams(ti.info.paramTypes, ti.dec, heap)
           op == f.ops[Len(f.invoked) + 1]
           m1 == [Cur EXCEPT
                     !.typeCache = ti.cache,
                     !.parsed = IF ti.err # "" THEN @
                                ELSE Append(@, [msg |-> f.id,
                                                typeId |-> op.typeId,
                                                full |-> op.full,
                                                written |-> [paramTypes |-> op.params,
                                                             returnType |-> op.ret],
                                                dec |-> takeU32D(f.dec),
                                                cache |-> typeCache])]
       IN IF ti.err # ""
          THEN Becomes(Throw(m1, ti.err, "nested"))
          ELSE IF fnId \notin Registry
          THEN Becomes(Throw(m1, "Unknown function ID in response", "nested"))
          ELSE Becomes([m1 EXCEPT !.stack[Len(stack)] =
                    [f EXCEPT !.state = "infn",
                              !.dec = p.dec,
                              !.cur = [fnId |-> fnId, returnType |-> ti.info.returnType,
                                       params |-> p.vals],
                              !.invoked = Append(@, [fnId |-> fnId, args |-> p.vals]),
                              !.callRet = JsUndefined,
                              !.called = FALSE]])

\* jsFunction returns; the rest of the turn stores its result
FnReturns ==
    /\ InHandler("infn")
    /\ LET f == Top(stack)
           result == FnResult(f)
           r == storeResult(f.cur.returnType, f.reservedCount, f.enc, heap, result)
       IN IF r.err
          THEN Becomes(Throw([Cur EXCEPT !.heap = r.h],
                             IF f.cur.returnType = TagBorrowedRef
                             THEN "Borrow stack overflow"
                             ELSE "No reserved slots available", "nested"))
          ELSE Becomes([Cur EXCEPT !.heap = r.h,
                                   !.stack[Len(stack)] =
                    [f EXCEPT !.state = "loop",
                              !.enc = r.e,
                              !.rets = Append(@, result),
                              !.types = Append(@, f.cur.returnType),
                              !.stored = Append(@, r.id),
                              !.marks = Append(@, [maxId |-> heap.maxId,
                                                   maxIdAfter |-> r.h.maxId,
                                                   enc |-> f.enc,
                                                   encAfter |-> r.e])]])

\* a plausible slip: the Respond is sent with the borrow frame and the
\* reservation scope of the handler still in place
HandlerRespond_noPop ==
    /\ InHandler("loop")
    /\ ~hasMoreU32(Top(stack).dec)
    /\ LET f == Top(stack)
           h2 == heap
           m1 == [Cur EXCEPT !.stack = Pop(@),
                             !.peer = PeerReceivesRespond(@, f.expects)]
       IN Becomes(sync_request_binary(m1,
              Ev("out", "Respond", f.id, finalize(f.enc),
                 [ops |-> f.ops, invoked |-> f.invoked, rets |-> f.rets,
                  types |-> f.types, stored |-> f.stored, W |-> f.W,
                  reservedCount |-> f.reservedCount, maxId |-> heap.maxId,
                  entry |-> f.entry,
                  exit |-> [scopes |-> Len(h2.reservationStack),
                            frames |-> Len(h2.borrowFrameStack),
                            ptr |-> h2.borrowStackPointer]])))

\* a plausible slip: the loop catches what jsFunction throws and goes on with
\* the next operation
FnThrows_caught ==
    /\ InHandler("infn")
    /\ Becomes([Cur EXCEPT !.thrown = "thrown by the JS function",
                           !.stack[Len(stack)].state = "loop"])

\* jsFunction throws
FnThrows ==
    /\ InHandler("infn")
    /\ Becomes(Throw(Cur, "thrown by the JS function", "nested"))

\* JS code calls a RustFunction wrapper
FnCalls ==
    /\ CanCall
    /\ Counted < MaxMsgs
    /\ \E sig \in CallSigs : Becomes(RustFunction_call(Cur, sig.f, sig.args))

\* JS code calls callExport
FnCallsExport ==
    /\ CanCall
    /\ Counted < MaxMsgs
    /\ \E args \in ExportArgs : Becomes(callExport(Cur, ExportName, args))

\* a plausible slip: the Respond is built but not sent, and the handler
\* returns null
HandlerRespond_noSend ==
    /\ InHandler("loop")
    /\ ~hasMoreU32(Top(stack).dec)
    /\ LET h1 == popBorrowFrame(heap).h
           h2 == popReservationScope(h1).h
           m1 == [Cur EXCEPT !.heap = h2, !.stack = Pop(@)]
       IN Becomes(ReturnResult(m1, NullResult))

\* the loop of handleBinaryResponse is over: pop the frame and the scope, send
\* the Respond; what comes back is handed to the caller of the handler
HandlerRespond ==
    /\ InHandler("loop")
    /\ ~hasMoreU32(Top(stack).dec)
    /\ LET f == Top(stack)
           h1 == popBorrowFrame(heap).h
           h2 == popReservationScope(h1).h
           m1 == [Cur EXCEPT !.heap = h2,
                             !.stack = Pop(@),
                             !.peer = PeerReceivesRespond(@, f.expects)]
       IN Becomes(sync_request_binary(m1,
              Ev("out", "Respond", f.id, finalize(f.enc),
                 [ops |-> f.ops, invoked |-> f.invoked, rets |-> f.rets,
                  types |-> f.types, stored |-> f.stored, W |-> f.W,
                  reservedCount |-> f.reservedCount, maxId |-> heap.maxId,
                  entry |-> f.entry,
                  exit |-> [scopes |-> Len(h2.reservationStack),
                            frames |-> Len(h2.borrowFrameStack),
                            ptr |-> h2.borrowStackPointer]])))

Next ==
    \/ PeerCallsEntry
    \/ PeerSendsEvaluate
    \/ PeerSendsRespond
    \/ PeerSendsRespondUnasked
    \/ PeerSendsOther
    \/ PeerSendsNothing
    \/ HandlerOp
    \/ FnReturns
    \/ FnThrows
    \/ FnCalls
    \/ FnCallsExport
    \/ HandlerRespond

Spec == Init /\ [][Next]_vars

(***************************************************************************)
(* FlowSpec: the runtime with a peer that answers every request and        *)
(* registry functions that return.  The peer's Evaluates include one whose *)
(* type definition does not parse, and the wrappers JS calls take several  *)
(* borrowed references.  The scheduling is that of a single JS thread: a   *)
(* handler that can take its next step takes it, a registry function that  *)
(* was called returns, and a request the peer holds is answered.           *)
(***************************************************************************)
\* registry[0] with type 1 defined in full, its return type a byte that is no
\* TypeTag; and the same with such a byte as parameter type
OpUnk(params, ret) ==
    [fnId |-> 0, typeId |-> 1, full |-> TRUE, marker |-> TYPE_FULL,
     params |-> params, ret |-> ret, args |-> <<5>>]

FlowCatalogue ==
    { [rc |-> 0, ops |-> <<OpInc(TRUE, 5), OpInc(FALSE, 6)>>],
      [rc |-> 0, ops |-> <<OpUnk(<<TagU32>>, 99)>>],
      [rc |-> 0, ops |-> <<OpInc(TRUE, 5), OpUnk(<<99>>, TagU32)>>] }

\* a wrapper with two borrowed references among its arguments, and one
\* without arguments that returns nothing
FlowSigs ==
    { [f |-> [fnId |-> 7,
              paramTypes |-> <<TagBorrowedRef, TagU32, TagBorrowedRef, TagU32>>,
              returnType |-> TagU32],
       args |-> <<Obj("b1"), Num(5), Obj("b2"), Num(6)>>],
      [f |-> [fnId |-> 8, paramTypes |-> <<>>, returnType |-> TagNull],
       args |-> <<>>] }

\* the peer calls window.evaluate_from_rust_binary with an Evaluate
FlowEntry ==
    /\ pc = "idle"
    /\ Counted < MaxMsgs
    /\ \E msg \in FlowCatalogue :
        LET id == Len(wire) + 1
            buf == EvaluateMsg(msg.rc, msg.ops)
            m0 == [Cur EXCEPT !.stack = Append(@, [kind |-> "entry", id |-> 0]),
                              !.wire = Append(@, Ev("in", "Evaluate", id, buf,
                                                    [rc |-> msg.rc, ops |-> msg.ops])),
                              !.peer = PeerEvaluates(@, msg.rc)]
        IN Becomes(handleBinaryResponse(m0, buf,
                       [id |-> id, ops |-> msg.ops, expects |-> PeerExpects(msg)]))

\* the response to a pending sync_request_binary is an Evaluate
FlowEvaluate ==
    /\ pc = "blocked"
    /\ Counted < MaxMsgs
    /\ \E msg \in FlowCatalogue :
        LET id == Len(wire) + 1
            buf == EvaluateMsg(msg.rc, msg.ops)
            m0 == [Cur EXCEPT !.wire = Append(@, Ev("in", "Evaluate", id, buf,
                                                    [rc |-> msg.rc, ops |-> msg.ops])),
                              !.peer = PeerEvaluates(@, msg.rc)]
        IN Becomes(handleBinaryResponse(m0, buf,
                       [id |-> id, ops |-> msg.ops, expects |-> PeerExpects(msg)]))

\* JS code calls a RustFunction wrapper
FlowCall ==
    /\ CanCall
    /\ Counted < MaxMsgs
    /\ \E sig \in FlowSigs : Becomes(RustFunction_call(Cur, sig.f, sig.args))

\* the peer answers the request it holds
PeerAnswers ==
    \/ FlowEvaluate
    \/ PeerSendsRespond
    \/ PeerSendsNothing

FlowNext ==
    \/ FlowEntry
    \/ PeerAnswers
    \/ HandlerOp
    \/ FnReturns
    \/ FlowCall
    \/ FnCallsExport
    \/ HandlerRespond

\* when HandlerOp can take a step, and when PeerAnswers can: each of the two
\* changes the state whenever its guard holds (the loop turn moves the handler
\* into the function or raises, a null response grows the history)
LoopHasWork == InHandler("loop") /\ hasMoreU32(Top(stack).dec)
Awaited == pc = "blocked"

\* JavaScript runs to completion: a handler that can go on does, a registry
\* function returns, and the peer answers every request. The weak fairness
\* of HandlerOp and of PeerAnswers is written with the enabling conditions
\* above, WF_vars(A) being []<>~ENABLED <<A>>_vars \/ []<><<A>>_vars.
FlowSpec ==
    /\ Init
    /\ [][FlowNext]_vars
    /\ WF_vars(FnReturns)
    /\ WF_vars(HandlerRespond)
    /\ ([]<>~LoopHasWork \/ []<><<HandlerOp>>_vars)
    /\ ([]<>~Awaited \/ []<><<PeerAnswers>>_vars)

(***************************************************************************)
(* DropSpec: RustFunction wrappers are constructed, collected and          *)
(* finalized.  The host calls the clean-up callback of a collected wrapper *)
(* as a job of its own, when no JS is running; an exception that leaves a  *)
(* job uncaught ends that job.                                             *)
(***************************************************************************)
\* how many wrappers are constructed
MaxWrappers == 2

\* the native function IDs the peer hands out
WrapperFnIds == {7, 8}

\* what the peer answers to a drop message
DropResponses ==
    { [type |-> "Null", buf |-> NullResponse, p |-> Words(<<>>)],
      [type |-> "Respond", buf |-> RespondMsg(Words(<<>>)), p |-> Words(<<>>)],
      [type |-> "Respond", buf |-> RespondMsg(Words(<<99>>)), p |-> Words(<<99>>)],
      [type |-> "Other", buf |-> OtherMsg(Words(<<>>)), p |-> Words(<<>>)],
      [type |-> "Other", buf |-> OtherMsg(Words(<<99>>)), p |-> Words(<<99>>)] }

\* new RustFunction(fnId, paramTypes, returnType): the instance is registered
DConstruct ==
    /\ pc = "idle"
    /\ Len(wrappers) < MaxWrappers
    /\ \E fnId \in WrapperFnIds :
          wrappers' = Append(wrappers, [fnId |-> fnId, state |-> "held"])
    /\ UNCHANGED <<heap, lastOp, ghost, pc, stack, typeCache, wire, peer, exited,
                   thrown, parsed, codec>>

\* JS lets go of a wrapper and the collector takes it
DCollect ==
    /\ \E w \in DOMAIN wrappers :
          /\ wrappers[w].state = "held"
          /\ wrappers' = [wrappers EXCEPT ![w].state = "collected"]
    /\ UNCHANGED <<heap, lastOp, ghost, pc, stack, typeCache, wire, peer, exited,
                   thrown, parsed, codec>>

\* the host calls the clean-up callback for a collected wrapper
DFinalize ==
    /\ pc = "idle"
    /\ \E w \in DOMAIN wrappers :
          /\ wrappers[w].state = "collected"
          /\ Becomes(nativeRefRegistry_callback(Cur, w))

\* the response to the drop message arrives and handleBinaryResponse runs
DPeerResponds ==
    /\ pc = "blocked"
    /\ Top(stack).kind = "finalizer"
    /\ \E r \in DropResponses :
          LET m0 == [Cur EXCEPT !.wire = Append(@, Ev("in", r.type, Top(stack).id,
                                                      r.buf, r.p))]
          IN Becomes(handleBinaryResponse(m0, r.buf, NoMeta))

\* the exception leaves the callback: the job ends
DUncaught ==
    /\ pc = "error"
    /\ Becomes([Cur EXCEPT !.pc = "idle", !.stack = <<>>])

DropNext ==
    \/ DConstruct
    \/ DCollect
    \/ DFinalize
    \/ DPeerResponds
    \/ DUncaught

DropSpec ==
    /\ Init
    /\ [][DropNext]_vars
    /\ WF_vars(DFinalize)
    /\ WF_vars(DPeerResponds)
    /\ WF_vars(DUncaught)

(***************************************************************************)
(* Properties of the heap (HeapSpec)                                       *)
(***************************************************************************)

\* C1: the k-th fillNextReserved on a scope of size n pushed at water-mark W
\* stores its value at ID W + k (k < n), whatever calls were made in between.
C1_FillLandsAtWPlusK ==
    (lastOp.op = "fillNextReserved" /\ ~lastOp.err) =>
        /\ lastOp.matched
        /\ lastOp.k < lastOp.n
        /\ lastOp.ret = lastOp.W + lastOp.k
        /\ get(heap, lastOp.W + lastOp.k) = lastOp.val

\* the second fill of a scope of size 2, after a nested scope was pushed,
\* filled and popped and an insert was made since the scope was pushed
C1_Witness ==
    /\ lastOp.op = "fillNextReserved" /\ ~lastOp.err
    /\ lastOp.n = 2 /\ lastOp.k = 1
    /\ Len(ghost.scopes) = 1
    /\ \E id \in ghost.reservedEver : id >= lastOp.W + lastOp.n
    /\ \E i \in DOMAIN ghost.inserted : ghost.inserted[i] > lastOp.W

\* C3: pushReservationScope(n) advances the water-mark by exactly n, and no
\* insert returns an ID that a scope covers or covered.
C3_ReservedNeverInserted ==
    /\ lastOp.op = "pushReservationScope" => heap.maxId = lastOp.preMax + lastOp.arg
    /\ lastOp.op = "insert" => lastOp.ret \notin ghost.reservedEver
    /\ Range(ghost.inserted) \cap ghost.reservedEver = {}

\* an insert made after a non-empty scope was popped, one having been made
\* while it was open
C3_Witness ==
    /\ lastOp.op = "insert"
    /\ Len(ghost.scopes) = 0
    /\ ghost.reservedEver # {}
    /\ Len(ghost.inserted) >= 2
    /\ \A id \in ghost.reservedEver : id < lastOp.ret

\* C4: insert returns the water-mark and advances it by one; the water-mark
\* never decreases; the IDs insert returns strictly increase; an ID that
\* insert returned and remove freed is never returned by insert again.
C4_InsertMonotonic ==
    /\ heap.maxId >= lastOp.preMax
    /\ lastOp.op = "insert" =>
          /\ lastOp.ret = lastOp.preMax
          /\ heap.maxId = lastOp.preMax + 1
          /\ lastOp.ret \notin ghost.removedEver
    /\ \A i, j \in DOMAIN ghost.inserted :
          i < j => ghost.inserted[i] < ghost.inserted[j]

\* an insert made after an inserted ID was removed
C4_Witness ==
    /\ lastOp.op = "insert"
    /\ ghost.removedEver # {}
    /\ Len(heap.freeIds) > 0
    /\ Len(ghost.inserted) >= 2

\* C10: the popBorrowFrame that matches a pushBorrowFrame restores the borrow
\* pointer to its value at the push, and no reference added in between can
\* be retrieved with get.
C10_PopRestoresFrame ==
    (lastOp.op = "popBorrowFrame" /\ lastOp.matched) =>
        /\ getBorrowStackPointer(heap) = lastOp.expectPtr
        /\ \A id \in lastOp.cleared : get(heap, id) = Undefined

\* push, add a, push, add b, pop, pop: the outer pop
C10_Witness ==
    /\ lastOp.op = "popBorrowFrame" /\ lastOp.matched
    /\ lastOp.nested
    /\ lastOp.cleared = {JSIDX_OFFSET - 1, JSIDX_OFFSET - 2}
    /\ lastOp.expectPtr = JSIDX_OFFSET
    /\ Len(heap.borrowFrameStack) = 0

(***************************************************************************)
(* Properties of the dispatch loop and the outbound calls (Spec)           *)
(***************************************************************************)
\* the Respond messages JS has sent
Responds == {i \in DOMAIN wire : wire[i].dir = "out" /\ wire[i].type = "Respond"}

\* the ID the k-th result must have if it is a HeapRef of a batch that
\* started at water-mark W
ReservedId(W, types, k) ==
    W + Cardinality({j \in 1..k : types[j] = TagHeapRef}) - 1

StoredAtReserved(W, types, stored) ==
    \A k \in DOMAIN stored : types[k] = TagHeapRef => stored[k] = ReservedId(W, types, k)

\* C2: in a batched Evaluate (reservedCount > 0) every operation that returns
\* a HeapRef has its result stored at W, W+1, W+2, ... in operation order,
\* W being the water-mark when the Evaluate was received, whatever outbound
\* calls and nested Evaluates happen between the operations; the value is
\* retrievable at that ID.
C2_BatchResultsAtReserved ==
    /\ \A i \in DOMAIN stack :
          (stack[i].kind = "handler" /\ stack[i].reservedCount > 0) =>
             /\ StoredAtReserved(stack[i].W, stack[i].types, stack[i].stored)
             /\ \A k \in DOMAIN stack[i].stored :
                   stack[i].types[k] = TagHeapRef =>
                      get(heap, stack[i].stored[k]) = stack[i].rets[k].obj
    /\ \A i \in Responds :
          wire[i].note.reservedCount > 0 =>
             StoredAtReserved(wire[i].note.W, wire[i].note.types, wire[i].note.stored)

\* a batch of three whose second operation made an outbound call during which
\* a nested Evaluate allocated an ID, answered with results at W, W+1, W+2
C2_Witness ==
    \E i \in Responds :
       /\ wire[i].note.reservedCount = 3
       /\ wire[i].note.stored =
             <<wire[i].note.W, wire[i].note.W + 1, wire[i].note.W + 2>>
       /\ \E c \in 1..i : \E n \in Responds :
             /\ wire[c].dir = "out" /\ wire[c].type = "Evaluate"
             /\ wire[c].note.parent = wire[i].id
             /\ wire[c].note.op = 2
             /\ c < n /\ n < i
             /\ \E k \in DOMAIN wire[n].note.stored :
                   wire[n].note.stored[k] >= wire[i].note.W + 3

\* the borrow-stack IDs at which a value is retrievable
LiveBorrow(h) == {i \in 1..(JSIDX_OFFSET - 1) : i \in DOMAIN h.slots}

RECURSIVE ExpectedWords(_, _)
ExpectedWords(rets, types) ==
    IF Len(rets) = 0 THEN <<>>
    ELSE (IF Head(types) = TagU32 THEN <<Head(rets).num>> ELSE <<>>)
            \o ExpectedWords(Tail(rets), Tail(types))

\* the operation the peer wrote, as the function must see it
AsInvoked(op) == [fnId |-> op.fnId, args |-> [j \in DOMAIN op.args |-> Num(op.args[j])]]

\* C6: every Respond JS sends answers an Evaluate it received earlier, is the
\* only Respond for it, was sent after the functions of all operations of
\* that Evaluate were invoked in message order with the arguments of the
\* message, and carries their return values in that order.
C6_OneRespondInOrder ==
    \A i \in Responds :
       /\ \E e \in 1..(i - 1) :
             wire[e].dir = "in" /\ wire[e].type = "Evaluate" /\ e = wire[i].id
       /\ \A j \in Responds : wire[j].id = wire[i].id => j = i
       /\ wire[i].note.invoked =
             [k \in DOMAIN wire[i].note.ops |-> AsInvoked(wire[i].note.ops[k])]
       /\ Len(wire[i].note.rets) = Len(wire[i].note.ops)
       /\ wire[i].buf.u32 = ExpectedWords(wire[i].note.rets, wire[i].note.types)
       /\ wire[i].buf.u8 = <<MessageType_Respond>>

\* a Respond for two operations that returned different numbers
C6_Witness ==
    \E i \in Responds :
       /\ Len(wire[i].note.rets) = 2
       /\ wire[i].buf.u32 = <<6, 7>>

\* the Evaluates still unanswered after the first n messages, outermost
\* first, and whether every Respond so far answered the innermost of them
\* from the other side.  With nullCloses a null transport response, or a
\* message of another type (which JS takes for one), ends the innermost
\* outbound Evaluate.
RECURSIVE Nest(_, _)
Nest(n, nullCloses) ==
    IF n = 0
    THEN [open |-> <<>>, ok |-> TRUE]
    ELSE LET before == Nest(n - 1, nullCloses)
             ev == wire[n]
             o == before.open
         IN CASE ev.type = "Evaluate" ->
                    [before EXCEPT !.open = Append(o, [id |-> ev.id, dir |-> ev.dir])]
              [] ev.type = "Respond" ->
                    IF Len(o) > 0 /\ Top(o).id = ev.id /\ Top(o).dir # ev.dir
                    THEN [before EXCEPT !.open = Pop(o)]
                    ELSE [before EXCEPT !.ok = FALSE]
              [] OTHER ->
                    IF nullCloses /\ Len(o) > 0 /\ Top(o).dir = "out"
                    THEN [before EXCEPT !.open = Pop(o)]
                    ELSE before

\* the activations on the call stack that stand for an Evaluate: a handler
\* for a received one, an outbound call for a sent one
RECURSIVE StackOpen(_)
StackOpen(stk) ==
    IF Len(stk) = 0 THEN <<>>
    ELSE StackOpen(Pop(stk)) \o
            (CASE Top(stk).kind = "handler" -> <<[id |-> Top(stk).id, dir |-> "in"]>>
               [] Top(stk).kind = "call" -> <<[id |-> Top(stk).id, dir |-> "out"]>>
               [] OTHER -> <<>>)

\* C7 as stated: every Respond, from either side, answers the innermost
\* Evaluate that is still unanswered, so an Evaluate handled by JS is answered
\* only when every outbound Evaluate issued while handling it has had its
\* Respond.
C7_BalancedByResponds == Nest(Len(wire), FALSE).ok

\* C7: the messages are balanced and properly nested when a null transport
\* response counts as the end of the outbound Evaluate it answers: every
\* Respond answers the innermost unanswered Evaluate, and as long as no
\* exception was thrown the unanswered Evaluates are exactly the activations
\* on the call stack, in order.
C7_BalancedWithNull ==
    LET n == Nest(Len(wire), TRUE)
    IN /\ n.ok
       /\ pc # "error" => n.open = StackOpen(stack)

\* JS answered an Evaluate although the outbound call made while handling it
\* got no Respond: the peer sent a nested Evaluate, JS answered that, and then
\* the transport returned null
C7_Witness ==
    \E i \in Responds : \E c \in 1..i : \E k \in Responds : \E r \in 1..i :
       /\ wire[c].dir = "out" /\ wire[c].type = "Evaluate"
       /\ wire[c].note.parent = wire[i].id
       /\ wire[r].type = "Null" /\ wire[r].id = c
       /\ c < k /\ k < r

\* the value a Respond with these payload words holds for a wrapper with
\* this return type
Carried(returnType, words) == IF returnType = TagU32 THEN Num(words[1]) ELSE JsNull

\* C8: when a RustFunction call returns, its value is the one decoded from
\* the peer's Respond for that call, which is the last message received, and
\* the calling JS function gets that value; every Evaluate the peer sent
\* after the call's Evaluate was handled completely and answered before that
\* Respond; and while the call is on the stack the enclosing handler holds the
\* return values of the earlier operations only, so the enclosing operation's
\* value is written, and the original Respond sent, after the call is over.
C8_WrapperReturnsPeerValue ==
    /\ (exited.valid /\ exited.via = "RustFunction" /\ exited.path = "return") =>
          LET r == wire[Len(wire)]
          IN /\ r.dir = "in" /\ r.type = "Respond" /\ r.id = exited.id
             /\ exited.value = Carried(exited.returnType, r.note.words)
             /\ pc = "run" => Top(stack).callRet = exited.value
             /\ \A k \in (exited.id + 1)..(Len(wire) - 1) :
                   (wire[k].dir = "in" /\ wire[k].type = "Evaluate") =>
                      \E j \in Responds :
                         /\ k < j /\ j < Len(wire)
                         /\ wire[j].id = k
                         /\ Len(wire[j].note.invoked) = Len(wire[j].note.ops)
    /\ \A i \in 2..Len(stack) :
          stack[i].kind = "call" =>
             /\ stack[i - 1].kind = "handler"
             /\ Len(stack[i - 1].rets) = Len(stack[i - 1].invoked) - 1
             /\ stack[i - 1].enc.u32 =
                   ExpectedWords(stack[i - 1].rets, stack[i - 1].types)
    /\ \A i \in Responds : \A c \in 1..Len(wire) :
          (/\ wire[c].dir = "out" /\ wire[c].type = "Evaluate"
           /\ wire[c].note.parent = wire[i].id) =>
             \E r \in (c + 1)..(i - 1) : wire[r].dir = "in" /\ wire[r].id = c

\* registry entry 0 called a (U32) -> U32 wrapper, the peer sent a nested
\* Evaluate and then the Respond with 10, and the original Respond carries 11
C8_Witness ==
    \E i \in Responds : \E c \in 1..i : \E k \in Responds : \E r \in 1..i :
       /\ wire[c].dir = "out" /\ wire[c].type = "Evaluate"
       /\ wire[c].note.parent = wire[i].id
       /\ wire[r].dir = "in" /\ wire[r].type = "Respond" /\ wire[r].id = c
       /\ wire[r].note.words = <<10>>
       /\ c < k /\ k < r
       /\ Len(wire[i].buf.u32) > 0
       /\ wire[i].buf.u32[1] = 11

\* C9: in the state an outbound call (RustFunction.call or callExport) ends
\* in, by a return or by an exception, the borrow-frame stack is as deep as
\* at call entry, the borrow-stack pointer has its value of call entry and
\* no borrowed reference the call placed is retrievable.
C9_ExitRestoresBorrowFrame ==
    exited.valid =>
        /\ Len(heap.borrowFrameStack) = exited.entryDepth
        /\ heap.borrowStackPointer = exited.entryPtr
        /\ \A id \in exited.placed : id \notin DOMAIN heap.slots

(***************************************************************************)
(* Properties of the borrow stack at its end (BorrowSpec)                  *)
(***************************************************************************)
\* the number of borrowed references that are active
ActiveBorrowed(h) == Cardinality(LiveBorrow(h))

\* C11: a call of addBorrowedRef throws exactly when 127 borrowed references
\* are active at the call, whatever frames they are in; a call that throws
\* leaves the heap (pointer, frame stack, slots) as it was, and a call that
\* does not makes one more reference active.
C11_OverflowOnlyAt127 ==
    [][lastOp'.op = "addBorrowedRef" =>
          /\ lastOp'.err <=> ActiveBorrowed(heap) = JSIDX_OFFSET - 1
          /\ lastOp'.err => heap' = heap
          /\ ~lastOp'.err => ActiveBorrowed(heap') = ActiveBorrowed(heap) + 1]_vars

\* the 128th addBorrowedRef, the 127 active references lying in part outside
\* and in part inside an open frame
C11_Witness ==
    /\ lastOp.op = "addBorrowedRef" /\ lastOp.err
    /\ ActiveBorrowed(heap) = JSIDX_OFFSET - 1
    /\ Len(heap.borrowFrameStack) = 1
    /\ heap.borrowFrameStack[1] < JSIDX_OFFSET
    /\ heap.borrowFrameStack[1] > 1
    /\ getBorrowStackPointer(heap) = 1

(***************************************************************************)
(* Properties of the heap (HeapSpec), continued                            *)
(***************************************************************************)
\* C12: in every state the IDs 128..131 read as undefined, null, true and
\* false, nothing is stored at ID 0, and no call of insert, addBorrowedRef or
\* fillNextReserved has returned ID 0.
C12_SpecialsFixedZeroUnused ==
    /\ get(heap, JSIDX_UNDEFINED) = Undefined
    /\ get(heap, JSIDX_NULL) = "null"
    /\ get(heap, JSIDX_TRUE) = "true"
    /\ get(heap, JSIDX_FALSE) = "false"
    /\ 0 \notin DOMAIN heap.slots
    /\ (lastOp.op \in {"insert", "addBorrowedRef", "fillNextReserved"} /\ ~lastOp.err)
          => lastOp.ret # 0

\* remove has just been called with a special ID or with 0, on a heap that
\* holds an inserted object, a borrowed reference and a reserved slot
C12_Witness ==
    /\ lastOp.op = "remove"
    /\ lastOp.arg \in {0, JSIDX_UNDEFINED, JSIDX_NULL, JSIDX_TRUE, JSIDX_FALSE}
    /\ Len(ghost.inserted) > 0
    /\ heap.borrowStackPointer < JSIDX_OFFSET
    /\ ghost.reservedEver # {}

\* C13: when every remove so far was called with an ID that was live at the
\* call and no reservation scope has reserved an ID, heapObjectsAlive is the
\* number of inserts minus the number of removes; this holds after the borrow
\* operations too, which change neither number.
C13_AliveIsInsertsMinusRemoves ==
    (ghost.removedNotLive = {} /\ ghost.reservedEver = {}) =>
        heapObjectsAlive(heap) = Len(ghost.inserted) - Cardinality(ghost.removedEver)

\* a borrow operation has just run on a heap with two inserts and one remove
\* of a live ID, a borrowed reference being held
C13_Witness ==
    /\ ghost.removedNotLive = {} /\ ghost.reservedEver = {}
    /\ Len(ghost.inserted) >= 2
    /\ Cardinality(ghost.removedEver) = 1
    /\ lastOp.op \in {"addBorrowedRef", "popBorrowFrame"} /\ ~lastOp.err
    /\ heapObjectsAlive(heap) = 1

\* the IDs has is asked about: everything up to one past the water-mark
ProbeIds(h) == 0 .. (h.maxId + 1)

\* C14: has(id) is true exactly for the IDs from 132 up to the water-mark that
\* are not on the free list; it is false below 132 and from the water-mark on.
C14_HasIffAllocatedNotFreed ==
    \A id \in ProbeIds(heap) :
        has(heap, id) <=> /\ JSIDX_RESERVED <= id
                          /\ id < heap.maxId
                          /\ id \notin Range(heap.freeIds)

\* C15 as stated: an ID returned by insert is reported by has exactly until
\* remove is called with it.
C15_HasFromInsertUntilRemove ==
    \A id \in Range(ghost.inserted) :
        has(heap, id) <=> id \notin ghost.removedEver

\* C15: for an ID returned by insert, has is false in every state after a
\* remove of it, whatever was called since; has is true from the insert until
\* that remove when remove was not called with the ID before it was inserted.
C15_HasUntilRemoveUnlessFreedBefore ==
    \A id \in Range(ghost.inserted) :
        /\ id \in ghost.removedEver => ~has(heap, id)
        /\ (id \notin ghost.removedEver /\ id \notin ghost.removedNotLive)
              => has(heap, id)

\* two inserted IDs, one removed and further operations since, among them an
\* insert, a remove of the same ID again and a reservation
C15_Witness ==
    /\ Len(ghost.inserted) >= 2
    /\ \E id \in ghost.removedEver : id \in ghost.removedNotLive /\ ~has(heap, id)
    /\ \E id \in Range(ghost.inserted) : id \notin ghost.removedEver /\ has(heap, id)
    /\ ghost.reservedEver # {}

(***************************************************************************)
(* Properties of the dispatch loop (Spec), continued                       *)
(***************************************************************************)
\* the HeapRef results a handler has stored in its reserved slots
Filled(f) ==
    IF f.reservedCount > 0
    THEN Cardinality({k \in DOMAIN f.types : f.types[k] = TagHeapRef})
    ELSE 0

\* the handlers on the call stack, each of which holds one reservation scope
Handlers == {i \in DOMAIN stack : stack[i].kind = "handler"}

\* the innermost handler's scope is used up (or there is no handler)
NoSlotLeft ==
    \/ Handlers = {}
    \/ LET f == stack[CHOOSE i \in Handlers : \A j \in Handlers : j <= i]
       IN Filled(f) >= f.reservedCount

\* C16: in every state a call of fillNextReserved throws exactly when there
\* is no reservation scope or the innermost scope has had as many fills as it
\* has slots, and a call that throws leaves the heap as it is; so the
\* operation of a batched Evaluate that returns a HeapRef after reservedCount
\* such results were stored throws "No reserved slots available", and no
\* handler ever stores more HeapRef results than its reservedCount.
C16_FillFailsWhenScopeUsedUp ==
    /\ \A v \in Results :
          LET r == fillNextReserved(heap, v)
          IN /\ r.err <=> NoSlotLeft
             /\ r.err => r.h = heap
    /\ \A i \in Handlers : Filled(stack[i]) <= stack[i].reservedCount
    /\ \A i \in Responds :
          wire[i].note.reservedCount > 0 =>
             Cardinality({k \in DOMAIN wire[i].note.types :
                             wire[i].note.types[k] = TagHeapRef})
                <= wire[i].note.reservedCount
    /\ InHandler("infn") =>
          LET f == Top(stack)
          IN (/\ f.reservedCount > 0
              /\ f.cur.returnType = TagHeapRef
              /\ Filled(f) >= f.reservedCount)
                => storeResult(f.cur.returnType, f.reservedCount, f.enc, heap,
                               FnResult(f)).err
    /\ thrown = "No reserved slots available" =>
          LET f == Top(stack)
          IN /\ f.kind = "handler" /\ f.reservedCount > 0
             /\ f.cur.returnType = TagHeapRef
             /\ Filled(f) = f.reservedCount
             /\ Len(f.invoked) = Len(f.types) + 1

\* the second operation of a batch with one reserved slot has thrown, the
\* first result being in its slot and the heap otherwise as before the call
C16_Witness ==
    /\ thrown = "No reserved slots available"
    /\ Top(stack).reservedCount = 1
    /\ Top(stack).stored = <<Top(stack).W>>
    /\ heap.maxId = Top(stack).W + 1
    /\ heap.length = Top(stack).W + 1

\* the calls of parseTypeInfo before the i-th that parsed a full definition
\* of the same type ID
DefsBefore(i) ==
    {j \in 1..(i - 1) : parsed[j].full /\ parsed[j].typeId = parsed[i].typeId}

LatestDef(i) == CHOOSE j \in DefsBefore(i) : \A k \in DefsBefore(i) : k <= j

\* the decoder of a cached operation, had the peer written the descriptors d
\* in full instead
WrittenInFull(dec, d) ==
    [dec EXCEPT !.u8 = <<TYPE_FULL, Len(d.paramTypes)>> \o d.paramTypes
                          \o <<d.returnType>> \o Tail(@)]

\* C17: every operation with a cached type slot (0xFF) that is parsed after a
\* full definition (0xFE) of its type ID, in the same message or a later one,
\* resolves to the descriptors of the most recent full definition of that ID;
\* the lookup leaves the cache as it is and takes only the marker byte from
\* the 8-bit stream; and parsing the same operation with those descriptors
\* written in full gives the same descriptors and the same decoder, hence the
\* same reply.  A cached lookup fails only for an ID never defined.
C17_CachedResolvesToLatestDef ==
    /\ \A i \in DOMAIN parsed :
          ~parsed[i].full =>
             /\ DefsBefore(i) # {}
             /\ LET e == parsed[i]
                    d == parsed[LatestDef(i)].written
                    c == parseTypeInfo(e.dec, e.cache)
                    twin == parseTypeInfo(WrittenInFull(e.dec, d), e.cache)
                IN /\ c.err = ""
                   /\ c.info = d
                   /\ c.cache = e.cache
                   /\ c.dec.u8 = Tail(e.dec.u8)
                   /\ twin.err = ""
                   /\ twin.info = c.info
                   /\ twin.dec = c.dec
    /\ thrown = "Unknown cached type ID" =>
          LET f == Top(stack)
              op == f.ops[Len(f.invoked) + 1]
          IN \A j \in DOMAIN parsed : ~(parsed[j].full /\ parsed[j].typeId = op.typeId)

\* a cached operation parsed in a later message than the definition it
\* resolves to, which had replaced an earlier definition of the same type ID
\* with another return type
C17_Witness ==
    \E i \in DOMAIN parsed :
       /\ ~parsed[i].full
       /\ DefsBefore(i) # {}
       /\ parsed[LatestDef(i)].msg # parsed[i].msg
       /\ parsed[LatestDef(i)].written.returnType = TagNull
       /\ \E j \in DefsBefore(i) : parsed[j].written.returnType = TagU32

\* the message received in the last step, if the last message was received
Received(type) ==
    /\ Len(wire) > 0
    /\ wire[Len(wire)].dir = "in"
    /\ wire[Len(wire)].type = type

\* C18: when the chain that evaluate_from_rust_binary started ends, with a
\* null response or with a Respond of the peer, the entry point throws the
\* leftover-bytes error exactly when the decoder it is handed has unread
\* data; it returns when the chain ends with a null response or with a
\* Respond that was consumed completely.
C18_EntryRaisesIffNotDrained ==
    ((Received("Null") \/ Received("Unasked")) /\ wire[Len(wire)].id = 0) =>
        LET r == wire[Len(wire)]
            unread == /\ r.type = "Unasked"
                      /\ ~isEmpty(takeU8D(DataDecoder(r.buf)))
        IN /\ pc = "error" <=> unread
           /\ pc = "error" =>
                 thrown = "Unprocessed data remaining after Evaluate handling"

\* what a Respond with payload p leaves unread once a value of type
\* returnType is decoded
Leftover(returnType, p) ==
    \/ Len(p.words) > (IF returnType = TagU32 THEN 1 ELSE 0)
    \/ p.u8 # <<>>
    \/ p.u16 # <<>>
    \/ p.str # <<>>

\* C19: when the peer's Respond for a RustFunction call reaches the call, the call throws
\* the leftover-bytes error if, the return value decoded, any of the four
\* streams of the Respond has unread data, and returns the decoded value if
\* none has; the error is thrown in no other case.
C19_LeftoverInAnyStreamRaises ==
    /\ (/\ Received("Respond")
        /\ exited.valid /\ exited.via = "RustFunction"
        /\ wire[Len(wire)].id = exited.id) =>
          LET r == wire[Len(wire)]
          IN /\ Leftover(exited.returnType, r.note) =>
                   /\ pc = "error"
                   /\ thrown = "Unprocessed data remaining after RustFunction call"
                   /\ exited.path = "leftover"
             /\ ~Leftover(exited.returnType, r.note) =>
                   /\ pc # "error"
                   /\ exited.path = "return"
                   /\ exited.value = Carried(exited.returnType, r.note.words)
    /\ thrown = "Unprocessed data remaining after RustFunction call" =>
          /\ Received("Respond")
          /\ exited.valid /\ exited.via = "RustFunction"
          /\ wire[Len(wire)].id = exited.id
          /\ Leftover(exited.returnType, wire[Len(wire)].note)

\* a (U32) -> U32 call made by a registry function got a Respond that holds
\* the value and, on the string stream, a byte more
C19_Witness ==
    /\ thrown = "Unprocessed data remaining after RustFunction call"
    /\ wire[Len(wire)].note.words = <<10>>
    /\ wire[Len(wire)].note.str # <<>>
    /\ Len(stack) > 1

\* C20: a received message whose type byte is neither Evaluate nor Respond
\* ends in an error, with or without further data in it.
C20_OtherTypeAlwaysRaises ==
    Received("Other") => pc = "error"

(***************************************************************************)
(* Properties of the borrow stack at its end (BorrowSpec), continued       *)
(***************************************************************************)
\* C30 as stated: addBorrowedRef throws when the decrement would bring the
\* pointer to 1 (the pointer is 2 at the call and stays 2), so the pointer is
\* never 1 and ID 1 is never returned.
C30_PointerNeverOne ==
    /\ heap.borrowStackPointer # 1
    /\ (lastOp.op = "addBorrowedRef" /\ lastOp.err) => heap.borrowStackPointer = 2
    /\ (lastOp.op = "addBorrowedRef" /\ ~lastOp.err) => lastOp.ret # 1

\* C30: addBorrowedRef throws when the pointer is 1 at the call, that is when
\* the decrement would bring it to 0; so the pointer never goes below 1, the
\* IDs returned are those from 127 down to 1, and ID 0 is never returned.
C30_PointerNeverZero ==
    /\ heap.borrowStackPointer >= 1
    /\ heap.borrowStackPointer <= JSIDX_OFFSET
    /\ (lastOp.op = "addBorrowedRef" /\ lastOp.err) => heap.borrowStackPointer = 1
    /\ (lastOp.op = "addBorrowedRef" /\ ~lastOp.err) =>
          /\ lastOp.ret = heap.borrowStackPointer
          /\ lastOp.ret >= 1
          /\ lastOp.ret < JSIDX_OFFSET
          /\ get(heap, lastOp.ret) = lastOp.val

\* the call that brought the pointer to 1 returned ID 1
C30_Witness ==
    /\ lastOp.op = "addBorrowedRef" /\ ~lastOp.err
    /\ lastOp.ret = 1
    /\ heap.borrowStackPointer = 1
    /\ 1 \in DOMAIN heap.slots

(***************************************************************************)
(* Properties of the operation loop (Spec), continued                      *)
(***************************************************************************)
\* why the loop cannot run the operation op as the peer wrote it, "" if it can
Unrunnable(op) ==
    IF op.marker \notin {TYPE_FULL, TYPE_CACHED} THEN "Unknown type marker"
    ELSE IF op.marker = TYPE_CACHED /\ op.typeId \notin DOMAIN typeCache
    THEN "Unknown cached type ID"
    ELSE IF op.fnId \notin Registry THEN "Unknown function ID in response"
    ELSE ""

UnrunnableErrors ==
    {"Unknown type marker", "Unknown cached type ID", "Unknown function ID in response"}

\* the Responds JS sent for the Evaluate numbered id
RespondsFor(id) ==
    {i \in DOMAIN wire : wire[i].dir = "out" /\ wire[i].type = "Respond" /\ wire[i].id = id}

\* C21: an operation whose type marker is neither 0xFE nor 0xFF, or whose
\* marker is 0xFF with a type ID that was never installed, or whose function
\* ID has no registry entry, raises an error: no registry function is invoked
\* for that operation and no Respond is sent for its message.
C21_UnrunnableOpRaises ==
    /\ \A i \in DOMAIN stack :
          stack[i].kind = "handler" =>
             LET f == stack[i]
                 k == Len(f.invoked) + 1
             IN /\ \A j \in DOMAIN f.invoked :
                      /\ Unrunnable(f.ops[j]) = ""
                      /\ f.invoked[j].fnId = f.ops[j].fnId
                /\ RespondsFor(f.id) = {}
                /\ (f.state = "loop" /\ k <= Len(f.ops) /\ Unrunnable(f.ops[k]) # "") =>
                      /\ i = Len(stack)
                      /\ pc \in {"run", "error"}
                      /\ pc = "error" => thrown = Unrunnable(f.ops[k])
    /\ \A i \in DOMAIN wire :
          (wire[i].dir = "out" /\ wire[i].type = "Respond") =>
             /\ Len(wire[i].note.invoked) = Len(wire[i].note.ops)
             /\ \A j \in DOMAIN wire[i].note.ops : Unrunnable(wire[i].note.ops[j]) = ""
    /\ (pc = "error" /\ thrown \in UnrunnableErrors) =>
          /\ Len(stack) > 0
          /\ Top(stack).kind = "handler"
          /\ Len(Top(stack).invoked) < Len(Top(stack).ops)
          /\ thrown = Unrunnable(Top(stack).ops[Len(Top(stack).invoked) + 1])

\* the second operation of an Evaluate has an unknown marker: the first was
\* invoked, the second was not, and the error was raised
C21_Witness ==
    /\ pc = "error"
    /\ thrown = "Unknown type marker"
    /\ Top(stack).kind = "handler"
    /\ Len(Top(stack).invoked) = 1
    /\ Len(Top(stack).ops) = 2
    /\ RespondsFor(Top(stack).id) = {}

\* C22: if the JS function of operation k throws, the exception propagates
\* uncaught: no operation after k is invoked and no Respond is sent for that
\* Evaluate (nor for an Evaluate whose operation was waiting on it).
C22_ThrowAbandonsEvaluate ==
    thrown = "thrown by the JS function" =>
        /\ pc = "error"
        /\ Len(stack) > 0
        /\ Top(stack).kind = "handler"
        /\ Top(stack).state = "infn"
        /\ Len(Top(stack).rets) = Len(Top(stack).invoked) - 1
        /\ \A i \in DOMAIN stack :
              stack[i].kind = "handler" =>
                 /\ RespondsFor(stack[i].id) = {}
                 /\ stack[i].state = "infn"
                 /\ Len(stack[i].invoked) <= Len(stack[i].ops)
        /\ wire[Len(wire)].type # "Respond" \/ wire[Len(wire)].dir = "in"

\* the first of two operations threw: the second was not invoked
C22_Witness ==
    /\ thrown = "thrown by the JS function"
    /\ Top(stack).kind = "handler"
    /\ Len(Top(stack).invoked) = 1
    /\ Len(Top(stack).ops) = 2
    /\ RespondsFor(Top(stack).id) = {}

\* C27: in an Evaluate with reservedCount > 0 each result whose return type
\* is HeapRef is stored with fillNextReserved, below the water-mark, which
\* stays as it is; with reservedCount = 0 it is stored with insert at the
\* water-mark, which advances by one; either way nothing is written to the
\* Respond for that value.
C27_HeapRefStoredNotEncoded ==
    \A i \in DOMAIN stack :
       stack[i].kind = "handler" =>
          LET f == stack[i]
          IN /\ Len(f.marks) = Len(f.types)
             /\ \A k \in DOMAIN f.types :
                   f.types[k] = TagHeapRef =>
                      /\ f.marks[k].encAfter = f.marks[k].enc
                      /\ heap.slots[f.stored[k]] = f.rets[k].obj
                      /\ IF f.reservedCount > 0
                         THEN /\ f.marks[k].maxIdAfter = f.marks[k].maxId
                              /\ f.stored[k] = ReservedId(f.W, f.types, k)
                              /\ f.stored[k] < f.W + f.reservedCount
                              /\ f.stored[k] < f.marks[k].maxId
                         ELSE /\ f.stored[k] = f.marks[k].maxId
                              /\ f.marks[k].maxIdAfter = f.marks[k].maxId + 1

\* both ways of storing have happened: a handler with reserved slots and one
\* without, nested or not, each with a HeapRef result stored
C27_Witness ==
    /\ \E i \in DOMAIN stack :
          /\ stack[i].kind = "handler"
          /\ stack[i].reservedCount > 0
          /\ \E k \in DOMAIN stack[i].types : stack[i].types[k] = TagHeapRef
    /\ \E i \in DOMAIN stack :
          /\ stack[i].kind = "handler"
          /\ stack[i].reservedCount = 0
          /\ \E k \in DOMAIN stack[i].types : stack[i].types[k] = TagHeapRef

\* the reservation-stack depth, the borrow-frame depth and the borrow pointer
HeapMarks(h) ==
    [scopes |-> Len(h.reservationStack), frames |-> Len(h.borrowFrameStack),
     ptr |-> h.borrowStackPointer]

\* C28: a handler that ends without error pushes one reservation scope and
\* one borrow frame before its first operation and pops both before it sends
\* the Respond: when the Respond is sent the depth of the reservation stack,
\* the depth of the borrow-frame stack and the borrow pointer are what they
\* were when the Evaluate was received.
C28_HandlerLeavesStacksAsFound ==
    /\ \A i \in DOMAIN wire :
          (wire[i].dir = "out" /\ wire[i].type = "Respond") =>
             wire[i].note.exit = wire[i].note.entry
    /\ (pc = "blocked" /\ wire[Len(wire)].dir = "out" /\ wire[Len(wire)].type = "Respond") =>
          HeapMarks(heap) = wire[Len(wire)].note.entry
    /\ (Len(stack) > 0 /\ Top(stack).kind = "handler" /\ pc = "run") =>
          /\ Len(heap.reservationStack) = Top(stack).entry.scopes + 1
          /\ Len(heap.borrowFrameStack) = Top(stack).entry.frames + 1
          /\ heap.borrowFrameStack[Len(heap.borrowFrameStack)] = Top(stack).entry.ptr
          /\ heap.borrowStackPointer <= Top(stack).entry.ptr

\* the Respond of a nested handler whose operation put a borrowed reference
\* on the borrow stack, sent while an outbound call holds a frame of its own
C28_Witness ==
    /\ pc = "blocked"
    /\ wire[Len(wire)].dir = "out" /\ wire[Len(wire)].type = "Respond"
    /\ TagBorrowedRef \in Range(wire[Len(wire)].note.types)
    /\ wire[Len(wire)].note.entry.frames > 0
    /\ HeapMarks(heap) = wire[Len(wire)].note.entry

\* the outbound call of frame f has popped its borrow frame on its way out
\* with an error (its activation is abandoned, not removed)
PoppedOwnFrame(f) ==
    /\ pc = "error"
    /\ exited.valid
    /\ exited.id = f.id
    /\ exited.path \in {"leftover", "null"}

\* C29: while an outbound wrapper call is blocked and nested Evaluates are
\* handled, which may make further wrapper calls that add and clear borrowed
\* references of their own, every borrowed reference the outer call placed
\* stays retrievable under the same ID until the outer call pops its frame.
C29_OuterBorrowsSurviveNesting ==
    \A i \in DOMAIN stack :
       (stack[i].kind = "call" /\ ~PoppedOwnFrame(stack[i])) =>
          /\ \A id \in stack[i].placed :
                /\ id \in DOMAIN heap.slots
                /\ get(heap, id) = stack[i].held[id]
                /\ id >= heap.borrowStackPointer
                /\ id < JSIDX_OFFSET
          /\ \A j \in DOMAIN stack :
                (j # i /\ stack[j].kind = "call") =>
                   stack[j].placed \cap stack[i].placed = {}

\* a nested wrapper call that placed a borrowed reference has just returned
\* and its reference is gone, while the outer call is still waiting and its
\* reference is in place
C29_Witness ==
    /\ pc = "run"
    /\ exited.valid
    /\ exited.placed # {}
    /\ \A id \in exited.placed : id \notin DOMAIN heap.slots
    /\ \E i \in DOMAIN stack :
          /\ stack[i].kind = "call"
          /\ stack[i].placed # {}
          /\ \A id \in stack[i].placed : get(heap, id) = "b"

(***************************************************************************)
(* Properties of the wire codec (CodecSpec)                                *)
(***************************************************************************)
\* C23: for any interleaving of pushU8, pushU16 and pushU32 with values
\* within their width, a decoder made from the finalized buffer returns on
\* each stream the values pushed on it, in push order, and isEmpty is true
\* exactly when all three streams are fully read.
C23_FixedWidthRoundTrip ==
    codec.phase = "take" =>
        /\ \A k \in {"u8", "u16", "u32"} :
              /\ Len(Taken({k})) <= Len(Pushed({k}))
              /\ Taken({k}) = SubSeq(Pushed({k}), 1, Len(Taken({k})))
        /\ isEmpty(codec.dec) <=>
              \A k \in {"u8", "u16", "u32"} : Len(Taken({k})) = Len(Pushed({k}))
        /\ Len(codec.buf) = 12 + 4 * Len(Pushed({"u32"})) + 2 * Len(Pushed({"u16"}))
                               + Len(Pushed({"u8"}))

\* one value was pushed on each stream, the 32-bit one first, and all three
\* were taken in another order
C23_Witness ==
    /\ codec.phase = "take"
    /\ Len(codec.log) = 3
    /\ codec.log[1].kind = "u32" /\ codec.log[2].kind = "u8" /\ codec.log[3].kind = "u16"
    /\ Len(codec.got) = 3
    /\ codec.got[1].kind = "u16" /\ codec.got[3].kind = "u32"
    /\ codec.got[1].num = 65535
    /\ isEmpty(codec.dec)

(***************************************************************************)
(* Properties of the wire codec (StrSpec)                                  *)
(***************************************************************************)
\* C24: for any strings pushed with pushStr, characters of several UTF-8
\* bytes included, the successive takeStr calls return the same strings in
\* the same order, and the string stream is exhausted exactly after the last
\* of them was taken.
C24_StringsRoundTrip ==
    codec.phase = "take" =>
        /\ Taken({"str"}) = SubSeq(Pushed({"str"}), 1, Len(Taken({"str"})))
        /\ Len(codec.dec.str) = 0 <=> Len(Taken({"str"})) = Len(Pushed({"str"}))

(***************************************************************************)
(* Properties of the wire codec (WideSpec)                                 *)
(***************************************************************************)
\* x is within the range of u128, of i128
InU128(x) == ~x.neg /\ x.bits \subseteq 0..127
InI128(x) == x.bits \subseteq 0..126 \/ (x.neg /\ x.bits = {127})

\* C25: 128-bit integers round-trip as two 64-bit halves: for every unsigned
\* v in the range of u128, takeU128 after pushU128(v) returns v, and for
\* every signed v in the range of i128, -1 included, takeI128 after
\* pushU128(v) returns v.
C25_WideRoundTrip ==
    codec.phase = "take" =>
        \A j \in DOMAIN codec.got :
           LET v == codec.log[j].big
               r == codec.got[j].big
           IN /\ (codec.got[j].kind = "u128" /\ InU128(v)) => r = v
              /\ (codec.got[j].kind = "i128" /\ InI128(v)) => r = v

(***************************************************************************)
(* Properties of the wrappers' finalizer (DropSpec)                        *)
(***************************************************************************)
\* the drop messages sent for wrapper w
DropsFor(w) ==
    {i \in DOMAIN wire : wire[i].dir = "out" /\ wire[i].type = "Evaluate"
                            /\ wire[i].note.drop = w}

\* the state of wrapper w, "none" before it is constructed
StateOf(w) == IF w \in DOMAIN wrappers THEN wrappers[w].state ELSE "none"

\* never more than one drop message for a wrapper, none for a wrapper that
\* JS holds or whose callback has not run, and each drop message is an
\* Evaluate whose 32-bit stream is 0xFFFFFFFF, fnId and nothing else
C26_DropsAreForFinalized ==
    /\ \A w \in DOMAIN wrappers :
          /\ Cardinality(DropsFor(w)) = IF wrappers[w].state = "dropped" THEN 1 ELSE 0
          /\ \A i \in DropsFor(w) :
                /\ wire[i].buf.u32 = <<DROP_NATIVE_REF_FN_ID, wrappers[w].fnId>>
                /\ wire[i].buf.u8 = <<MessageType_Evaluate>>
                /\ wire[i].buf.u16 = <<>> /\ wire[i].buf.str = <<>>
    /\ \A i \in DOMAIN wire :
          wire[i].dir = "out" => wire[i].note.drop \in DOMAIN wrappers

C31_AliveIsWaterMarkMinusFreed ==
    heapObjectsAlive(heap) = heap.maxId - Len(heap.freeIds) - JSIDX_RESERVED

\* C32: a call remove(id) with id below 132 leaves the heap as it was, for
\* the special IDs and for the IDs of the borrow stack; a call with id from
\* 132 up leaves the slot empty, so that get(id) is undefined, appends id to
\* the free list and changes no other slot, nor the water-mark, nor the
\* borrow stack.
C32_RemoveFrame ==
    [][lastOp'.op = "remove" =>
          LET id == lastOp'.arg
          IN /\ id < JSIDX_RESERVED => heap' = heap
             /\ id >= JSIDX_RESERVED =>
                   /\ get(heap', id) = Undefined
                   /\ id \notin DOMAIN heap'.slots
                   /\ heap'.freeIds = Append(heap.freeIds, id)
                   /\ DOMAIN heap'.slots = (DOMAIN heap.slots) \ {id}
                   /\ \A x \in DOMAIN heap'.slots : heap'.slots[x] = heap.slots[x]
                   /\ heap'.maxId = heap.maxId
                   /\ heap'.borrowStackPointer = heap.borrowStackPointer
                   /\ heap'.borrowFrameStack = heap.borrowFrameStack
                   /\ heap'.reservationStack = heap.reservationStack]_vars

\* remove has just taken a live object out of a heap that holds another
\* object and a borrowed reference
C32_Witness ==
    /\ lastOp.op = "remove" /\ lastOp.arg >= JSIDX_RESERVED
    /\ lastOp.val \in Objects
    /\ lastOp.arg \notin DOMAIN heap.slots
    /\ Top(heap.freeIds) = lastOp.arg
    /\ \E x \in DOMAIN heap.slots : x >= JSIDX_RESERVED
    /\ heap.borrowStackPointer < JSIDX_OFFSET

\* C36: in every state the borrow-stack pointer is in 1..128, no slot with
\* an ID from 1 up to the pointer (exclusive) holds anything, and the saved
\* pointers on the borrow-frame stack do not increase from bottom to top and
\* are each at least the pointer.
C36_BorrowStackShape ==
    /\ heap.borrowStackPointer \in 1..JSIDX_OFFSET
    /\ \A id \in 1..(heap.borrowStackPointer - 1) : id \notin DOMAIN heap.slots
    /\ \A i \in 1..Len(heap.borrowFrameStack) :
          /\ heap.borrowFrameStack[i] >= heap.borrowStackPointer
          /\ i > 1 => heap.borrowFrameStack[i - 1] >= heap.borrowFrameStack[i]

\* two frames are open, saved at different pointers, and a reference was
\* borrowed inside the inner one
C36_Witness ==
    /\ Len(heap.borrowFrameStack) = 2
    /\ heap.borrowFrameStack[1] > heap.borrowFrameStack[2]
    /\ heap.borrowFrameStack[2] > heap.borrowStackPointer
    /\ heap.borrowStackPointer \in DOMAIN heap.slots

\* the IDs a reservation scope covers
ScopeRange(scope) == scope.start .. (scope.start + scope.count - 1)

\* every scope is within its count and below the water-mark, and an inner
\* scope begins at or above the end of every outer one
ScopesWellFormed(h) ==
    \A i \in 1..Len(h.reservationStack) :
        LET scope == h.reservationStack[i]
        IN /\ 0 <= scope.nextIndex /\ scope.nextIndex <= scope.count
           /\ scope.start + scope.count <= h.maxId
           /\ \A j \in 1..(i - 1) :
                 /\ h.reservationStack[j].start + h.reservationStack[j].count
                       <= scope.start
                 /\ ScopeRange(h.reservationStack[j]) \cap ScopeRange(scope) = {}

\* C37: the scopes on the reservation stack are well formed in every state,
\* and a fillNextReserved that succeeds writes inside the innermost scope's
\* range, outside the range of every outer scope, and leaves the nextIndex
\* of every outer scope as it was.
C37_ScopesDisjointFillsInner ==
    /\ []ScopesWellFormed(heap)
    /\ [][(lastOp'.op = "fillNextReserved" /\ ~lastOp'.err) =>
            LET n == Len(heap.reservationStack)
            IN /\ n > 0 /\ Len(heap'.reservationStack) = n
               /\ lastOp'.ret \in ScopeRange(heap.reservationStack[n])
               /\ heap'.slots[lastOp'.ret] = lastOp'.val
               /\ \A j \in 1..(n - 1) :
                     /\ lastOp'.ret \notin ScopeRange(heap.reservationStack[j])
                     /\ heap'.reservationStack[j] = heap.reservationStack[j]]_vars

\* an inner scope has just been filled while an outer scope with a slot of
\* its own, not yet filled, is open below it
C37_Witness ==
    /\ lastOp.op = "fillNextReserved" /\ ~lastOp.err
    /\ Len(heap.reservationStack) = 2
    /\ heap.reservationStack[1].count > 0
    /\ heap.reservationStack[1].nextIndex = 0
    /\ heap.reservationStack[2].nextIndex > 0
    /\ lastOp.ret \in ScopeRange(heap.reservationStack[2])

(***************************************************************************)
(* Properties of StringEnumType (EnumSpec)                                 *)
(***************************************************************************)
\* the strings encoded so far, and the values decoded so far
EnumPushed == Pushed({"enum"})
EnumTaken == Taken({"enum", "undefined"})

\* C34: with a table of n variants, encoding the variant at position i (from
\* 0) writes the word i and decoding the word i gives that variant; encoding
\* a string that is no variant writes the word n, and decoding the word n
\* gives undefined.
C34_EnumIndexRoundTrip ==
    Len(codec.log) > 0 =>
        LET t == EnumTable
            n == Len(t)
        IN /\ Len(codec.enc.u32) = Len(EnumPushed)
           /\ \A k \in 1..Len(EnumPushed) :
                 LET v == EnumPushed[k].str
                     word == codec.enc.u32[k]
                 IN /\ \A i \in 0..(n - 1) : t[i + 1] = v => word = i
                    /\ (\A i \in 0..(n - 1) : t[i + 1] # v) => word = n
           /\ \A k \in 1..Len(EnumTaken) :
                 LET word == codec.enc.u32[k]
                     got == EnumTaken[k]
                 IN /\ got.num = word
                    /\ word < n => got.kind = "enum" /\ got.str = t[word + 1]
                    /\ word = n => got.kind = "undefined"

\* with the table "b" "a" "c", the variant "c" and then a string that is no
\* variant were encoded, and both words were decoded
C34_Witness ==
    /\ Len(codec.log) = 3
    /\ Len(EnumTable) = 3
    /\ EnumPushed[1].str = EnumTable[3]
    /\ \A i \in 1..3 : EnumTable[i] # EnumPushed[2].str
    /\ Len(EnumTaken) = 2
    /\ EnumTaken[1].kind = "enum" /\ EnumTaken[1].num = 2
    /\ EnumTaken[2].kind = "undefined" /\ EnumTaken[2].num = 3

(***************************************************************************)
(* Properties of the dispatch loop with an answering peer (FlowSpec)       *)
(***************************************************************************)
\* the activations of one kind on the JS call stack
Frames(kind) == {i \in DOMAIN stack : stack[i].kind = kind}

\* C35: whenever JS is blocked in a transport send and no error was raised,
\* the borrow-frame stack is as deep as the number of Evaluate handlers inside
\* their operation loop plus the number of outbound calls in progress, and
\* the reservation stack is as deep as the number of those handlers.
C35_StackDepthsCountActivations ==
    pc = "blocked" =>
        /\ Len(heap.borrowFrameStack) =
              Cardinality(Frames("handler")) + Cardinality(Frames("call"))
        /\ Len(heap.reservationStack) = Cardinality(Frames("handler"))

\* a handler nested in an outbound call has just sent its Respond, the call
\* and the handler whose function made it being still in progress
C35_Witness ==
    /\ pc = "blocked"
    /\ Cardinality(Frames("handler")) = 1
    /\ Cardinality(Frames("call")) = 1
    /\ Top(stack).kind = "call"
    /\ wire[Len(wire)].dir = "out" /\ wire[Len(wire)].type = "Respond"
    /\ Len(heap.borrowFrameStack) = 2
    /\ Len(heap.reservationStack) = 1

\* the wrapper the last outbound message is the call of
SigOf(ev) == CHOOSE s \in FlowSigs : s.f.fnId = ev.buf.u32[2]

\* the positions of the parameters of a type, and the rank of one among them
ParamsOf(types, tag) == {i \in DOMAIN types : types[i] = tag}
RankIn(S, i) == Cardinality({j \in S : j <= i})

\* C38: when a RustFunction.call entered with borrow-stack pointer p is
\* blocked in its send, the message holds the type byte, the words 0 and fnId
\* and the numeric arguments in parameter order and nothing else, and the
\* k-th argument of type BorrowedRef is stored at ID p - k.
C38_ArgsInOrderBorrowsBelowEntry ==
    (/\ pc = "blocked"
     /\ Top(stack).kind = "call" /\ Top(stack).via = "RustFunction"
     /\ wire[Len(wire)].dir = "out" /\ wire[Len(wire)].id = Top(stack).id) =>
        LET f == Top(stack)
            ev == wire[Len(wire)]
            sig == SigOf(ev)
            types == sig.f.paramTypes
            refs == ParamsOf(types, TagBorrowedRef)
            nums == ParamsOf(types, TagU32)
            p == f.entryPtr
        IN /\ ev.buf.u8 = <<MessageType_Evaluate>>
           /\ ev.buf.u16 = <<>> /\ ev.buf.str = <<>>
           /\ Len(ev.buf.u32) = 2 + Cardinality(nums)
           /\ ev.buf.u32[1] = 0
           /\ \A i \in nums : ev.buf.u32[2 + RankIn(nums, i)] = sig.args[i].num
           /\ \A i \in refs : get(heap, p - RankIn(refs, i)) = sig.args[i].obj
           /\ f.placed = {p - k : k \in 1..Cardinality(refs)}
           /\ heap.borrowStackPointer = p - Cardinality(refs)

\* a wrapper with two borrowed arguments is called by a registry function
\* that runs inside another such call: the pointer at entry is 126
C38_Witness ==
    /\ pc = "blocked"
    /\ Top(stack).kind = "call" /\ Top(stack).via = "RustFunction"
    /\ wire[Len(wire)].dir = "out" /\ wire[Len(wire)].id = Top(stack).id
    /\ Top(stack).entryPtr = JSIDX_OFFSET - 2
    /\ get(heap, JSIDX_OFFSET - 3) = "b1"
    /\ get(heap, JSIDX_OFFSET - 4) = "b2"
    /\ wire[Len(wire)].buf.u32 = <<0, 7, 5, 6>>

\* the operation a handler in its loop reads next, and whether its type slot
\* is a full definition that holds a byte that is no TypeTag (0..24)
NextOp(f) == f.ops[Len(f.invoked) + 1]
BadDef(op) ==
    /\ op.marker = TYPE_FULL
    /\ \E tag \in Range(op.params) \cup {op.ret} : tag \notin 0..24

\* C39: a step of the loop on an operation whose full type definition holds
\* an unknown type tag raises the error and leaves the type cache as it was.
C39_BadDefLeavesCache ==
    [][(/\ InHandler("loop")
        /\ hasMoreU32(Top(stack).dec)
        /\ BadDef(NextOp(Top(stack)))) =>
            /\ pc' = "error"
            /\ thrown' = "Unknown TypeTag"
            /\ typeCache' = typeCache]_vars

\* the definition that failed to parse was for a type ID that is installed,
\* with the descriptor an earlier message gave it
C39_Witness ==
    /\ pc = "error" /\ thrown = "Unknown TypeTag"
    /\ Top(stack).kind = "handler"
    /\ BadDef(NextOp(Top(stack)))
    /\ NextOp(Top(stack)).ret = 99
    /\ NextOp(Top(stack)).typeId \in DOMAIN typeCache
    /\ typeCache[NextOp(Top(stack)).typeId].returnType = TagU32

\* the step in which sync_request_binary returns null
NullArrives ==
    /\ Len(wire') = Len(wire) + 1
    /\ wire'[Len(wire')].type = "Null"

\* C33: when the transport returns null, nothing more is sent in that step;
\* the heap is unchanged when the handler returns to the entry point, and
\* when it returns to an outbound call the only change is that the call's
\* borrow frame is popped, which is done whether or not the call then raises
\* the error about the missing return value.
C33_NullEndsQuietlyFramePopped ==
    [][NullArrives =>
          LET f == Top(stack)
          IN /\ SubSeq(wire', 1, Len(wire)) = wire
             /\ pc' # "blocked"
             /\ f.kind = "call" =>
                   /\ Len(heap'.borrowFrameStack) = Len(heap.borrowFrameStack) - 1
                   /\ Len(heap'.borrowFrameStack) = f.entryDepth
                   /\ heap'.borrowStackPointer = f.entryPtr
                   /\ \A id \in f.placed : id \notin DOMAIN heap'.slots
                   /\ \A id \in (DOMAIN heap.slots) \ f.placed :
                         id \in DOMAIN heap'.slots /\ heap'.slots[id] = heap.slots[id]
                   /\ heap'.maxId = heap.maxId
                   /\ heap'.freeIds = heap.freeIds
                   /\ heap'.reservationStack = heap.reservationStack
                   /\ pc' = "error" <=> (f.via = "RustFunction" /\ f.returnType # TagNull)
                   /\ pc' = "error" => thrown' = "TypeError: result is null"
             /\ f.kind # "call" => (heap' = heap /\ pc' = "idle")]_vars

\* a call that placed two borrowed references and expects a number got a
\* null response: the error is raised and the frame is gone
C33_Witness ==
    /\ pc = "error" /\ thrown = "TypeError: result is null"
    /\ wire[Len(wire)].type = "Null"
    /\ exited.valid /\ exited.path = "null"
    /\ Cardinality(exited.placed) = 2
    /\ Len(heap.borrowFrameStack) = exited.entryDepth
    /\ heap.borrowStackPointer = exited.entryPtr

\* the message at position i of the history is an Evaluate of the peer, and
\* JS has sent the Respond for it
EvaluateIn(i) == wire[i].dir = "in" /\ wire[i].type = "Evaluate"
Answered(i) == RespondsFor(i) # {}

\* the Evaluates received and not answered so far. The history only grows,
\* so an answer is never taken back; handlers nest on the call stack, so the
\* oldest of these is answered after all the others.
Unanswered == {i \in DOMAIN wire : EvaluateIn(i) /\ ~Answered(i)}

\* an error ended the run while a registry function was running
FnNotReturned ==
    /\ pc = "error"
    /\ \E i \in DOMAIN stack : stack[i].kind = "handler" /\ stack[i].state = "infn"

====
